---- MODULE Spec2Model ----
(***************************************************************************)
(* Model of the mod subsystem of BetterMinesweeper:                        *)
(*   - EventSystem   (src/_internal/mods/event_system.py)                  *)
(*   - AssetManager  (src/_internal/mods/asset_manager.py)                 *)
(*   - ModManager    (src/_internal/mods/mod_manager.py)                   *)
(*   - Registry      (src/_internal/mods/mod_api.py)                       *)
(*   - ModSettings   (src/_internal/mods/mod_settings.py)                  *)
(*   - ModSystemIntegration (src/_internal/mods/mod_integration.py)        *)
(* Each component has its own specification over the shared variables:    *)
(*   SpecEvents, SpecAssets, SpecResolve (discovery and resolution),       *)
(*   SpecLoadAll (enabled list and batch load), Spec (the mod lifecycle),  *)
(*   SpecDiscover (the scan of the search directories), SpecAssetPaths     *)
(*   (the typed path lookups), SpecRegistry, SpecSettings, SpecNamespace   *)
(*   (the namespace of a ModInfo), SpecFacade (ModSystemIntegration),      *)
(*   SpecModEvents (mod.load and mod.unload with a handler registered),    *)
(*   SpecCache (the discovery cache while the disk and the clock change).  *)
(***************************************************************************)
EXTENDS Integers, Sequences, FiniteSets, TLC

VARIABLES
    handlers,      \* EventSystem.handlers: event name -> list of EventHandler
    event_stats,   \* EventSystem.event_stats: event name -> number of emits
    emit,          \* the frame of the emit_event call in progress (or the last one)
    assets,        \* AssetManager.assets: asset name -> winning AssetInfo
    conflicts,     \* AssetManager.conflicts: asset name -> list of AssetInfo
    asset_cache,   \* AssetManager.asset_cache: cache key -> loaded config
    registered,    \* history: asset name -> the AssetInfo registered and not unregistered, in order
    am_calls,      \* history: number of register_mod_assets calls the host made itself
    am_pure,       \* history: only register_mod_assets has been called so far
    am_last,       \* history: the last AssetManager call and its result
    manifest,      \* the disk: namespace -> the dependencies its manifest declares
    discovered_mods, \* ModManager.discovered_mods: ModInfo in dict (insertion) order
    loaded_mods,   \* ModManager.loaded_mods: ModInfo in dict (insertion) order
    mod_load_order,  \* ModManager.mod_load_order
    sys_modules,   \* sys.modules: the namespaces whose code unit "mods.<ns>" is cached
    settings,      \* config.settings.settings: enabled_mods, _mods_initialized
    mm_last,       \* history: the last ModManager call, its inputs and its result
    fs,            \* the clock and the search directories with the manifests in them
    scanner,       \* ModManager._discovery_errors and the fields of the discovery cache
    reg_entries,   \* Registry.entries: key -> value
    reg_mod_entries, \* Registry.mod_entries: mod name -> list of the keys it registered
    last_owner,    \* history: key -> the mod of the most recent register call for it
    reg_calls,     \* history: number of register calls
    ms_settings,   \* ModSettings.settings: full key -> SettingInfo
    namespaces,    \* ModSettings.namespaces: namespace -> mod name
    settings_file, \* config/mod_settings.json: its parsed content, or absent
    ms_last,       \* history: the last ModSettings call, its inputs and its result
    initialized,   \* ModSystemIntegration.initialized
    facade_last,   \* history: the last ModSystemIntegration call and its result
    mod_info       \* a ModInfo under construction: its name and, once derived, its namespace

evars == <<handlers, event_stats, emit>>
avars == <<assets, conflicts, asset_cache, registered, am_calls, am_pure, am_last>>
mvars == <<manifest, discovered_mods, loaded_mods, mod_load_order, sys_modules, settings,
           mm_last>>
dvars == <<fs, scanner>>
rvars == <<reg_entries, reg_mod_entries, last_owner, reg_calls>>
svars == <<ms_settings, namespaces, settings_file, ms_last>>
ivars == <<initialized, facade_last>>
nvars == <<mod_info>>
vars == <<evars, avars, mvars, dvars, rvars, svars, ivars, nvars>>

\* Python's None: a string where strings are expected, a record where
\* records or dicts are expected
None == "None"
NoneRec == [none |-> TRUE]
IsNone(x) == DOMAIN x = {"none"}

(***************************************************************************)
(* Generic helpers on sequences.                                           *)
(***************************************************************************)
Range(s) == {s[i] : i \in 1..Len(s)}

RemoveAt(s, i) == [j \in 1..(Len(s) - 1) |-> IF j < i THEN s[j] ELSE s[j + 1]]

InsertAt(s, i, x) ==
    [j \in 1..(Len(s) + 1) |-> IF j < i THEN s[j] ELSE IF j = i THEN x ELSE s[j - 1]]

(***************************************************************************)
(* EventSystem                                                             *)
(***************************************************************************)
\* config/constants.py MOD_EVENT_REGISTRY, event_system.py EventPriority
PRIORITY_HIGHEST == 0
PRIORITY_HIGH == 250
PRIORITY_NORMAL == 500
PRIORITY_LOW == 750
PRIORITY_LOWEST == 1000
PRIORITY_MONITOR == -1000

\* The inputs of the event model: one event name, three callbacks owned by
\* two mods, three of the six priority bands.
EventNames == {"game.start"}
\* The events that are counted: those, and the two the ModManager publishes
StatNames == EventNames \cup {"mod.load", "mod.unload"}
Callbacks == {"h1", "h2", "h3"}
CallbackOwner == [h1 |-> "moda", h2 |-> "moda", h3 |-> "modb"]
EventMods == {"moda", "modb"}
Priorities == {PRIORITY_MONITOR, PRIORITY_HIGH, PRIORITY_NORMAL}
MaxEmits == 1

\* EventHandler(callback, priority, mod_name, event_name)
EventHandler(cb, prio, mod, ev) ==
    [callback |-> cb, priority |-> prio, mod_name |-> mod, event_name |-> ev]

\* An __lt__ that orders the handlers by descending priority value
HandlerLt_descending(x, y) == x.priority > y.priority

\* EventHandler.__lt__
HandlerLt(x, y) == x.priority < y.priority

\* bisect.bisect_left(a, x): the position before the entries that are not
\* less than x
RECURSIVE bisect_left(_, _, _, _)
bisect_left(a, x, lo, hi) ==
    IF lo < hi
    THEN LET mid == (lo + hi) \div 2
         IN IF HandlerLt(a[mid + 1], x)
            THEN bisect_left(a, x, mid + 1, hi)
            ELSE bisect_left(a, x, lo, mid)
    ELSE lo

\* bisect.bisect_right(a, x) with the handlers' __lt__: binary search
RECURSIVE bisect_right(_, _, _, _)
bisect_right(a, x, lo, hi) ==
    \* lo, hi are Python's 0-based bounds
    IF lo < hi
    THEN LET mid == (lo + hi) \div 2
         IN IF HandlerLt(x, a[mid + 1])
            THEN bisect_right(a, x, lo, mid)
            ELSE bisect_right(a, x, mid + 1, hi)
    ELSE lo

\* bisect.insort(a, x): insert x after the entries that are not greater
insort(a, x) == InsertAt(a, bisect_right(a, x, 0, Len(a)) + 1, x)

\* A register_handler that appends the handler to the list
register_handler_appends(hs, cb, prio, mod, ev) == Append(hs, EventHandler(cb, prio, mod, ev))

\* EventSystem.register_handler: the list after the registration
register_handler(hs, cb, prio, mod, ev) == insort(hs, EventHandler(cb, prio, mod, ev))

\* EventSystem.unregister_handler: index of the first handler with this
\* callback and mod name, 0 when there is none
FirstMatch(hs, cb, mod) ==
    LET M == {i \in 1..Len(hs) : hs[i].callback = cb /\ hs[i].mod_name = mod}
    IN IF M = {} THEN 0 ELSE CHOOSE i \in M : \A j \in M : i <= j

unregister_handler(hs, cb, mod) ==
    IF FirstMatch(hs, cb, mod) = 0 THEN hs ELSE RemoveAt(hs, FirstMatch(hs, cb, mod))

\* EventSystem.unregister_mod_handlers: a NEW list without the mod's handlers
unregister_mod_handlers(hs, mod) == SelectSeq(hs, LAMBDA h : h.mod_name # mod)

Registered(hs, cb) == \E i \in 1..Len(hs) : hs[i].callback = cb

\* The frame of emit_event: the list the for loop iterates (iter), whether
\* that list object is still EventSystem.handlers[event_name] (aliased), the
\* iterator's 0-based index (idx), Event.cancelled, and a record of what the
\* dispatch did: the handlers registered when it began (start), the callbacks
\* handlers invoked in order (invoked), the callbacks unregistered during the dispatch
\* (removed), those that raised (threw), the first callback that cancelled
\* (cancelledBy) and the number of invocations made up to its return
\* (invokedAtCancel).
IdleFrame ==
    [pc |-> "idle", event_name |-> None, iter |-> <<>>, aliased |-> FALSE, idx |-> 0,
     cancelled |-> FALSE, start |-> <<>>, invoked |-> <<>>, removed |-> {},
     threw |-> {}, cancelledBy |-> None, invokedAtCancel |-> 0, returned |-> FALSE]

EventsInit ==
    /\ handlers = [e \in EventNames |-> <<>>]
    /\ event_stats = [e \in StatNames |-> 0]
    /\ emit = IdleFrame

\* register_handler called by the host or a mod outside any dispatch
RegisterHandler ==
    /\ UNCHANGED <<avars, mvars, dvars, rvars, svars, ivars, nvars>>
    /\ emit.pc = "idle"
    /\ \E e \in EventNames, cb \in Callbacks, p \in Priorities :
          /\ ~Registered(handlers[e], cb)
          /\ handlers' = [handlers EXCEPT
                 ![e] = register_handler(@, cb, p, CallbackOwner[cb], e)]
    /\ emit' = IdleFrame
    /\ UNCHANGED event_stats

\* unregister_handler called outside any dispatch
UnregisterHandler ==
    /\ UNCHANGED <<avars, mvars, dvars, rvars, svars, ivars, nvars>>
    /\ emit.pc = "idle"
    /\ \E e \in EventNames, cb \in Callbacks :
          /\ Registered(handlers[e], cb)
          /\ handlers' = [handlers EXCEPT
                 ![e] = unregister_handler(@, cb, CallbackOwner[cb])]
    /\ emit' = IdleFrame
    /\ UNCHANGED event_stats

\* unregister_mod_handlers called outside any dispatch
UnregisterModHandlers ==
    /\ UNCHANGED <<avars, mvars, dvars, rvars, svars, ivars, nvars>>
    /\ emit.pc = "idle"
    /\ \E m \in EventMods :
          handlers' = [e \in EventNames |-> unregister_mod_handlers(handlers[e], m)]
    /\ emit' = IdleFrame
    /\ UNCHANGED event_stats

\* emit_event, lines 95-98: the event is created and the for loop starts on
\* the list object self.handlers[event_name] itself
EmitBegin ==
    /\ UNCHANGED <<avars, mvars, dvars, rvars, svars, ivars, nvars>>
    /\ emit.pc = "idle"
    /\ \E e \in EventNames :
          /\ event_stats[e] < MaxEmits
          /\ emit' = [IdleFrame EXCEPT !.pc = "loop", !.event_name = e,
                         !.iter = handlers[e], !.aliased = TRUE,
                         !.start = handlers[e]]
    /\ UNCHANGED <<handlers, event_stats>>

\* What a callback may do to the registrations of the event being published
CallbackOps ==
    {[op |-> "none"]}
      \cup {[op |-> "unsub", cb |-> c] : c \in Callbacks}
      \cup {[op |-> "sub", cb |-> c, priority |-> p] : c \in Callbacks, p \in Priorities}
      \cup {[op |-> "unsuball", mod |-> m] : m \in EventMods}

\* The list object the loop iterates after the callback's operation: an
\* in-place insort or del changes it while it is still the registered list;
\* unregister_mod_handlers rebinds self.handlers[event_name] to a new list
\* and leaves the iterated object as it was.
IterAfter(f, o) ==
    IF ~f.aliased THEN f.iter
    ELSE IF o.op = "unsub" THEN unregister_handler(f.iter, o.cb, CallbackOwner[o.cb])
    ELSE IF o.op = "sub"
         THEN register_handler(f.iter, o.cb, o.priority, CallbackOwner[o.cb], f.event_name)
    ELSE f.iter

HandlersAfter(hs, o, e) ==
    IF o.op = "unsub" THEN unregister_handler(hs, o.cb, CallbackOwner[o.cb])
    ELSE IF o.op = "sub" THEN register_handler(hs, o.cb, o.priority, CallbackOwner[o.cb], e)
    ELSE IF o.op = "unsuball" THEN unregister_mod_handlers(hs, o.mod)
    ELSE hs

RemovedBy(hs, o) ==
    IF o.op = "unsub" /\ Registered(hs, o.cb) THEN {o.cb}
    ELSE IF o.op = "unsuball"
         THEN {hs[i].callback : i \in {j \in 1..Len(hs) : hs[j].mod_name = o.mod}}
    ELSE {}

\* emit_event, lines 98-107: one iteration of the for loop. The iterator
\* yields iter[idx] and advances; a cancelled event skips every handler that
\* is not MONITOR; otherwise the callback runs (it may cancel the event,
\* change the registrations, and raise: the exception is caught and printed).
EmitStep ==
    /\ UNCHANGED <<avars, mvars, dvars, rvars, svars, ivars, nvars>>
    /\ emit.pc = "loop"
    /\ emit.idx < Len(emit.iter)
    /\ LET h == emit.iter[emit.idx + 1]
           e == emit.event_name
       IN IF emit.cancelled /\ h.priority # PRIORITY_MONITOR
          THEN /\ emit' = [emit EXCEPT !.idx = @ + 1]
               /\ UNCHANGED handlers
          ELSE \E cancel \in BOOLEAN, raises \in BOOLEAN, o \in CallbackOps :
                  /\ o.op = "sub" => ~Registered(handlers[e], o.cb)
                  /\ o.op = "unsub" => Registered(handlers[e], o.cb)
                  /\ handlers' = [handlers EXCEPT ![e] = HandlersAfter(@, o, e)]
                  /\ emit' = [emit EXCEPT
                        !.idx = @ + 1,
                        !.iter = IterAfter(emit, o),
                        !.aliased = @ /\ o.op # "unsuball",
                        !.cancelled = @ \/ cancel,
                        !.invoked = Append(@, h),
                        !.removed = @ \cup RemovedBy(handlers[e], o),
                        !.threw = IF raises THEN @ \cup {h.callback} ELSE @,
                        !.cancelledBy =
                            IF cancel /\ ~emit.cancelled THEN h.callback ELSE @,
                        !.invokedAtCancel =
                            IF cancel /\ ~emit.cancelled THEN Len(emit.invoked) + 1 ELSE @]
    /\ UNCHANGED event_stats

\* emit_event, lines 109-112: the loop is exhausted, the statistics are
\* updated and the event is returned
EmitEnd ==
    /\ UNCHANGED <<avars, mvars, dvars, rvars, svars, ivars, nvars>>
    /\ emit.pc = "loop"
    /\ emit.idx >= Len(emit.iter)
    /\ event_stats' = [event_stats EXCEPT ![emit.event_name] = @ + 1]
    /\ emit' = [emit EXCEPT !.pc = "idle", !.returned = TRUE]
    /\ UNCHANGED handlers

EventsNext ==
    \/ RegisterHandler
    \/ UnregisterHandler
    \/ UnregisterModHandlers
    \/ EmitBegin
    \/ EmitStep
    \/ EmitEnd


(***************************************************************************)
(* Claims about EventSystem.emit_event (checked under SpecEvents).         *)
(***************************************************************************)
\* How many times callback c was invoked in the dispatch
Count(c, seq) == Cardinality({i \in 1..Len(seq) : seq[i].callback = c})

\* Position (1-based) of callback c in the list hs, 0 when absent
PosOf(hs, c) ==
    LET M == {i \in 1..Len(hs) : hs[i].callback = c}
    IN IF M = {} THEN 0 ELSE CHOOSE i \in M : \A j \in M : i <= j

\* A publish during which no callback changed the registrations
NoRegistrationChange == emit.removed = {} /\ emit.aliased /\ emit.iter = emit.start

\* C6: within one publish, once a handler has cancelled the event, no later
\* handler that is not MONITOR is invoked, every MONITOR handler that was
\* registered behind the cancelling handler when the publish began (and was
\* not unregistered during it) is still invoked, and the returned event has
\* cancelled = TRUE.
C6_CancelSkipsAllButMonitor ==
    (emit.returned /\ emit.cancelledBy # None) =>
        /\ emit.cancelled
        /\ \A i \in 1..Len(emit.invoked) :
              i > emit.invokedAtCancel => emit.invoked[i].priority = PRIORITY_MONITOR
        /\ \A k \in 1..Len(emit.start) :
              (/\ emit.start[k].priority = PRIORITY_MONITOR
               /\ PosOf(emit.start, emit.cancelledBy) # 0
               /\ k > PosOf(emit.start, emit.cancelledBy)
               /\ emit.start[k].callback \notin emit.removed)
              => \E i \in 1..Len(emit.invoked) :
                    /\ i > emit.invokedAtCancel
                    /\ emit.invoked[i].callback = emit.start[k].callback

\* C7: a handler that raises does not stop the dispatch: every other handler
\* that was registered when the publish began, was not unregistered during
\* it and is eligible (the event is not cancelled, or the handler is MONITOR)
\* is invoked, the event is returned, and a cancel made by the raising
\* handler stays in effect.
C7_RaisingHandlerIsIsolated ==
    (emit.returned /\ emit.threw # {}) =>
        /\ \A k \in 1..Len(emit.start) :
              (/\ emit.start[k].callback \notin emit.removed
               /\ (~emit.cancelled \/ emit.start[k].priority = PRIORITY_MONITOR))
              => Count(emit.start[k].callback, emit.invoked) >= 1
        /\ (emit.cancelledBy \in emit.threw) => emit.cancelled

\* C8: registration changes made by a callback during the dispatch do not
\* corrupt it: in a publish that is not cancelled, every handler registered
\* when the publish began and not unregistered during it is invoked exactly
\* once.
C8_DispatchNotCorruptedByMutation ==
    (emit.returned /\ ~emit.cancelled) =>
        \A k \in 1..Len(emit.start) :
           emit.start[k].callback \notin emit.removed
           => Count(emit.start[k].callback, emit.invoked) = 1

\* C6 and C7 restricted to the publishes during which no callback changed
\* the registrations: there the cancel rule and the isolation of a raising
\* handler hold as the claims state them.
CancelRuleWithoutRegistrationChange ==
    NoRegistrationChange => C6_CancelSkipsAllButMonitor

IsolationWithoutRegistrationChange ==
    NoRegistrationChange => C7_RaisingHandlerIsIsolated

\* The handlers are in ascending order of priority
SortedByPriority(hs) ==
    \A i, j \in 1..Len(hs) : i < j => hs[i].priority <= hs[j].priority

Bands == PRIORITY_HIGHEST..PRIORITY_LOWEST

BothIn(hs, c, d) == PosOf(hs, c) # 0 /\ PosOf(hs, d) # 0

\* The handlers that stay registered keep their relative order: the old
\* list without the handlers that left is the new list without the newcomers
RelativeOrderKept(hs, hs2) ==
    SelectSeq(hs, LAMBDA h : h \in Range(hs2)) = SelectSeq(hs2, LAMBDA h : h \in Range(hs))

\* A handler that was not registered before sits behind every handler of
\* its priority that was
NewcomerBehindItsEquals(hs, hs2) ==
    \A i, j \in 1..Len(hs2) :
       (i < j /\ hs2[i] \notin Range(hs) /\ hs2[j] \in Range(hs))
       => hs2[i].priority # hs2[j].priority

EmptyDict == [k \in {} |-> None]
DictSet(d, k, v) == [x \in DOMAIN d \cup {k} |-> IF x = k THEN v ELSE d[x]]
DictDel(d, ks) == [x \in DOMAIN d \ ks |-> d[x]]

\* The inputs of the asset model: three mods and the load priorities they
\* register with (moda 100, modb 100 or 500, modc 500), the files a mod may
\* hold under assets/ (name relative to assets/, suffix, whether the file
\* name contains "tileset") and the contents of its config file. A mod
\* either has no assets directory or holds all three files.
AssetMods == {"moda", "modb", "modc"}
ModPriorities == {<<"moda", 100>>, <<"modb", 100>>, <<"modb", 500>>, <<"modc", 500>>}
AssetFiles ==
    {[name |-> "tilesets/x.png", suffix |-> ".png", tileset_in_name |-> FALSE],
     [name |-> "config/game.json", suffix |-> ".json", tileset_in_name |-> FALSE],
     [name |-> "notes.txt", suffix |-> ".txt", tileset_in_name |-> FALSE]}
AssetFileSets == {{}, AssetFiles}
\* A second assets directory: a default tileset, a default font, a sound and
\* a config file, held by mods of two priorities
MediaFiles ==
    {[name |-> "tilesets/default.png", suffix |-> ".png", tileset_in_name |-> FALSE],
     [name |-> "fonts/default.ttf", suffix |-> ".ttf", tileset_in_name |-> FALSE],
     [name |-> "sounds/click.wav", suffix |-> ".wav", tileset_in_name |-> FALSE],
     [name |-> "config/game.json", suffix |-> ".json", tileset_in_name |-> FALSE]}
MediaFileSets == {{}, MediaFiles}
MediaModPriorities == {<<"moda", 100>>, <<"modb", 500>>}
AssetNames == {f.name : f \in AssetFiles \cup MediaFiles}
TilesetQueries == {"x", "default", "classic"}
FontQueries == {"default", "fancy", "default.ttf"}
SoundQueries == {"click", "click.wav", "boom"}
QueryNames == AssetNames \cup {"x.png", "game.json"}
ConfigNames == {"game"}
MaxRegs == 3

Scalar(v) == [t |-> "scalar", v |-> v]
Mapping(d) == [t |-> "dict", v |-> d]
ConfigA == ("k1" :> Scalar(1)) @@ ("k2" :> Mapping(("n1" :> Scalar(1))))
ConfigB == ("k1" :> Scalar(2)) @@ ("k2" :> Mapping(("n1" :> Scalar(2)) @@ ("n2" :> Scalar(2))))
ConfigC == ("k2" :> Scalar(3)) @@ ("k3" :> Scalar(3))
\* The contents of config/game.json of each mod, as read by json.load
ConfigContents ==
    {[moda |-> ConfigA, modb |-> ConfigB, modc |-> ConfigC],
     [moda |-> ConfigB, modb |-> ConfigA, modc |-> ConfigC],
     [moda |-> ConfigC, modb |-> ConfigA, modc |-> EmptyDict]}

\* mod_path / 'assets' / name for the mod directory mods/<mod_name>
AssetPath(mod, name) == "mods/" \o mod \o "/assets/" \o name

\* AssetManager._determine_asset_type
determine_asset_type(f) ==
    IF f.suffix \in {".png", ".jpg", ".jpeg", ".bmp", ".gif"}
    THEN IF f.tileset_in_name THEN "tileset" ELSE "image"
    ELSE IF f.suffix \in {".wav", ".mp3", ".ogg"} THEN "sound"
    ELSE IF f.suffix \in {".json"} THEN "config"
    ELSE IF f.suffix \in {".ttf", ".otf"} THEN "font"
    ELSE None

AssetInfo(name, path, mod, prio, type) ==
    [name |-> name, path |-> path, mod_name |-> mod, priority |-> prio, asset_type |-> type]

\* The AssetManager object: the two tables
AM(a, c) == [assets |-> a, conflicts |-> c]

\* AssetManager._register_asset, mutated: an equal priority displaces the incumbent
register_asset_tie_displaces(am, info) ==
    IF info.name \in DOMAIN am.assets
    THEN LET existing == am.assets[info.name]
             tracked == IF info.name \in DOMAIN am.conflicts
                        THEN am.conflicts[info.name] ELSE <<existing>>
         IN AM(IF info.priority <= existing.priority
               THEN DictSet(am.assets, info.name, info) ELSE am.assets,
               DictSet(am.conflicts, info.name, Append(tracked, info)))
    ELSE AM(DictSet(am.assets, info.name, info), am.conflicts)

\* AssetManager._register_asset
register_asset(am, info) ==
    IF info.name \in DOMAIN am.assets
    THEN LET existing == am.assets[info.name]
             tracked == IF info.name \in DOMAIN am.conflicts
                        THEN am.conflicts[info.name] ELSE <<existing>>
         IN AM(IF info.priority < existing.priority
               THEN DictSet(am.assets, info.name, info) ELSE am.assets,
               DictSet(am.conflicts, info.name, Append(tracked, info)))
    ELSE AM(DictSet(am.assets, info.name, info), am.conflicts)

\* AssetManager.register_mod_assets: every file under assets/ with a known
\* type is registered (the files of one mod have distinct names, so the
\* order of rglob does not matter)
RECURSIVE register_mod_assets(_, _, _, _)
register_mod_assets(am, mod, prio, files) ==
    IF files = {} THEN am
    ELSE LET f == CHOOSE x \in files : TRUE
             type == determine_asset_type(f)
             am1 == IF type # None
                    THEN register_asset(am, AssetInfo(f.name, AssetPath(mod, f.name), mod, prio, type))
                    ELSE am
         IN register_mod_assets(am1, mod, prio, files \ {f})

\* AssetManager.get_asset_path
get_asset_path(a, name) ==
    IF name \in DOMAIN a THEN a[name].path
    ELSE IF ("tilesets" \o "/" \o name) \in DOMAIN a THEN a["tilesets" \o "/" \o name].path
    ELSE IF ("sounds" \o "/" \o name) \in DOMAIN a THEN a["sounds" \o "/" \o name].path
    ELSE IF ("fonts" \o "/" \o name) \in DOMAIN a THEN a["fonts" \o "/" \o name].path
    ELSE None

\* AssetManager._deep_merge
RECURSIVE deep_merge(_, _)
deep_merge(base, overlay) ==
    [k \in DOMAIN base \cup DOMAIN overlay |->
        IF k \notin DOMAIN overlay THEN base[k]
        ELSE IF k \in DOMAIN base /\ base[k].t = "dict" /\ overlay[k].t = "dict"
             THEN Mapping(deep_merge(base[k].v, overlay[k].v))
             ELSE overlay[k]]

\* list.sort(key=priority): stable insertion into a list sorted by priority
RECURSIVE sort_by_priority(_)
sort_by_priority(l) ==
    IF l = <<>> THEN <<>>
    ELSE LET rest == sort_by_priority(SubSeq(l, 1, Len(l) - 1))
             x == l[Len(l)]
             n == Cardinality({i \in 1..Len(rest) : rest[i].priority <= x.priority})
         IN InsertAt(rest, n + 1, x)

\* AssetManager.merge_configs, lines 181-184: the entries of self.assets (the
\* primary table, one entry per asset name) whose name is the pattern
matching_assets(a, pattern) ==
    IF pattern \in DOMAIN a /\ a[pattern].name = pattern /\ a[pattern].asset_type = "config"
    THEN <<a[pattern]>> ELSE <<>>

RECURSIVE merge_all(_, _, _)
merge_all(merged, l, content) ==
    IF l = <<>> THEN merged
    ELSE merge_all(deep_merge(merged, content[l[1].mod_name]), Tail(l), content)

\* AssetManager.merge_configs; content gives what json.load reads per mod
merge_configs(a, config_name, content) ==
    LET pattern == "config/" \o config_name \o ".json"
        merged == merge_all(EmptyDict, sort_by_priority(matching_assets(a, pattern)), content)
    IN IF DOMAIN merged # {} THEN merged ELSE NoneRec

\* AssetManager.resolve_conflict: the entry of preferred_mod, None when absent
preferred_entry(l, mod) ==
    LET M == {i \in 1..Len(l) : l[i].mod_name = mod}
    IN IF M = {} THEN NoneRec ELSE l[CHOOSE i \in M : \A j \in M : i <= j]

\* AssetManager.resolve_conflict(asset_name, preferred_mod): the primary
\* table after the call and what the call returns
resolve_conflict(am, name, mod) ==
    IF name \in DOMAIN am.conflicts /\ ~IsNone(preferred_entry(am.conflicts[name], mod))
    THEN [assets |-> DictSet(am.assets, name, preferred_entry(am.conflicts[name], mod)),
          result |-> TRUE]
    ELSE [assets |-> am.assets, result |-> FALSE]

\* unregister_mod_assets that filters the conflict lists but keeps the
\* primary table
unregister_mod_assets_keeps_primary(am, mod) ==
    LET filtered == [n \in DOMAIN am.conflicts |->
                        SelectSeq(am.conflicts[n], LAMBDA x : x.mod_name # mod)]
    IN AM(am.assets, DictDel(filtered, {n \in DOMAIN filtered : filtered[n] = <<>>}))

\* AssetManager.unregister_mod_assets(mod_name): the two tables after the call
unregister_mod_assets(am, mod) ==
    LET filtered == [n \in DOMAIN am.conflicts |->
                        SelectSeq(am.conflicts[n], LAMBDA x : x.mod_name # mod)]
    IN AM(DictDel(am.assets, {n \in DOMAIN am.assets : am.assets[n].mod_name = mod}),
          DictDel(filtered, {n \in DOMAIN filtered : filtered[n] = <<>>}))

\* AssetManager.get_tileset_path(tileset_name)
RECURSIVE get_tileset_path(_, _)
get_tileset_path(a, tileset_name) ==
    IF get_asset_path(a, "tilesets/" \o tileset_name \o ".png") # None
    THEN get_asset_path(a, "tilesets/" \o tileset_name \o ".png")
    ELSE IF get_asset_path(a, "tilesets/" \o tileset_name) # None
    THEN get_asset_path(a, "tilesets/" \o tileset_name)
    ELSE IF tileset_name # "default" THEN get_tileset_path(a, "default")
    ELSE None

\* AssetManager.get_font_path(font_name)
RECURSIVE get_font_path(_, _)
get_font_path(a, font_name) ==
    IF get_asset_path(a, "fonts/" \o font_name \o ".ttf") # None
    THEN get_asset_path(a, "fonts/" \o font_name \o ".ttf")
    ELSE IF get_asset_path(a, "fonts/" \o font_name \o ".otf") # None
    THEN get_asset_path(a, "fonts/" \o font_name \o ".otf")
    ELSE IF get_asset_path(a, "fonts/" \o font_name) # None
    THEN get_asset_path(a, "fonts/" \o font_name)
    ELSE IF font_name # "default" THEN get_font_path(a, "default")
    ELSE None

\* AssetManager.get_sound_path(sound_name)
get_sound_path(a, sound_name) ==
    IF get_asset_path(a, "sounds/" \o sound_name \o ".wav") # None
    THEN get_asset_path(a, "sounds/" \o sound_name \o ".wav")
    ELSE IF get_asset_path(a, "sounds/" \o sound_name \o ".mp3") # None
    THEN get_asset_path(a, "sounds/" \o sound_name \o ".mp3")
    ELSE IF get_asset_path(a, "sounds/" \o sound_name \o ".ogg") # None
    THEN get_asset_path(a, "sounds/" \o sound_name \o ".ogg")
    ELSE get_asset_path(a, "sounds/" \o sound_name)

AssetsInit ==
    /\ assets = EmptyDict
    /\ conflicts = EmptyDict
    /\ asset_cache = EmptyDict
    /\ registered = [n \in AssetNames |-> <<>>]
    /\ am_calls = 0
    /\ am_pure = TRUE
    /\ am_last = [op |-> "init"]

\* The registrations of one call, appended to the history
RegisteredAfter(mod, prio, files) ==
    [n \in AssetNames |->
        IF \E f \in files : f.name = n /\ determine_asset_type(f) # None
        THEN Append(registered[n],
                 AssetInfo(n, AssetPath(mod, n), mod, prio,
                           determine_asset_type(CHOOSE f \in files : f.name = n)))
        ELSE registered[n]]

\* register_mod_assets(mod_name, mod_path, priority)
RegisterModAssets ==
    /\ UNCHANGED <<evars, mvars, dvars, rvars, svars, ivars, nvars>>
    /\ am_calls < MaxRegs
    /\ \E mp \in ModPriorities, files \in AssetFileSets :
          LET mod == mp[1]
              prio == mp[2]
              am == register_mod_assets(AM(assets, conflicts), mod, prio, files)
          IN /\ assets' = am.assets
             /\ conflicts' = am.conflicts
             /\ registered' = RegisteredAfter(mod, prio, files)
             /\ am_last' = [op |-> "register_mod_assets"]
    /\ am_calls' = am_calls + 1
    /\ UNCHANGED <<asset_cache, am_pure>>

\* register_mod_assets(mod_name, mod_path, priority) on the second directory
RegisterMediaAssets ==
    /\ UNCHANGED <<evars, mvars, dvars, rvars, svars, ivars, nvars>>
    /\ am_calls < MaxRegs
    /\ \E mp \in MediaModPriorities, files \in MediaFileSets :
          LET mod == mp[1]
              prio == mp[2]
              am == register_mod_assets(AM(assets, conflicts), mod, prio, files)
          IN /\ assets' = am.assets
             /\ conflicts' = am.conflicts
             /\ registered' = RegisteredAfter(mod, prio, files)
             /\ am_last' = [op |-> "register_mod_assets"]
    /\ am_calls' = am_calls + 1
    /\ UNCHANGED <<asset_cache, am_pure>>

\* resolve_conflict(asset_name, preferred_mod)
ResolveConflict ==
    /\ UNCHANGED <<evars, mvars, dvars, rvars, svars, ivars, nvars>>
    /\ \E name \in AssetNames, mod \in AssetMods :
          LET r == resolve_conflict(AM(assets, conflicts), name, mod)
          IN /\ assets' = r.assets
             /\ am_last' = [op |-> "resolve_conflict", result |-> r.result]
    /\ am_pure' = FALSE
    /\ UNCHANGED <<conflicts, asset_cache, registered, am_calls>>

\* unregister_mod_assets(mod_name)
UnregisterModAssets ==
    /\ UNCHANGED <<evars, mvars, dvars, rvars, svars, ivars, nvars>>
    /\ \E mod \in AssetMods :
          /\ assets' = unregister_mod_assets(AM(assets, conflicts), mod).assets
          /\ conflicts' = unregister_mod_assets(AM(assets, conflicts), mod).conflicts
          /\ registered' = [n \in AssetNames |->
                               SelectSeq(registered[n], LAMBDA x : x.mod_name # mod)]
          /\ am_last' = [op |-> "unregister_mod_assets"]
    /\ asset_cache' = EmptyDict
    /\ am_pure' = FALSE
    /\ UNCHANGED am_calls

\* load_config(config_name); content gives what json.load reads per mod
LoadConfig ==
    /\ UNCHANGED <<evars, mvars, dvars, rvars, svars, ivars, nvars>>
    /\ \E name \in ConfigNames, content \in ConfigContents :
          LET key == "config:" \o name
              path == get_asset_path(assets, "config/" \o name \o ".json")
              owner == assets["config/" \o name \o ".json"].mod_name
          IN IF key \in DOMAIN asset_cache
             THEN /\ am_last' = [op |-> "load_config", name |-> name,
                                 result |-> asset_cache[key]]
                  /\ UNCHANGED asset_cache
             ELSE IF path = None
             THEN /\ am_last' = [op |-> "load_config", name |-> name, result |-> NoneRec]
                  /\ UNCHANGED asset_cache
             ELSE /\ asset_cache' = DictSet(asset_cache, key, content[owner])
                  /\ am_last' = [op |-> "load_config", name |-> name,
                                 result |-> content[owner]]
    /\ UNCHANGED <<assets, conflicts, registered, am_calls, am_pure>>

\* clear_cache()
ClearCache ==
    /\ UNCHANGED <<evars, mvars, dvars, rvars, svars, ivars, nvars>>
    /\ DOMAIN asset_cache # {}
    /\ asset_cache' = EmptyDict
    /\ am_last' = [op |-> "clear_cache"]
    /\ UNCHANGED <<assets, conflicts, registered, am_calls, am_pure>>

\* merge_configs(config_name)
MergeConfigs ==
    /\ UNCHANGED <<evars, mvars, dvars, rvars, svars, ivars, nvars>>
    /\ \E name \in ConfigNames, content \in ConfigContents :
          am_last' = [op |-> "merge_configs", name |-> name, content |-> content,
                      result |-> merge_configs(assets, name, content)]
    /\ UNCHANGED <<assets, conflicts, asset_cache, registered, am_calls, am_pure>>

AssetsNext ==
    \/ RegisterModAssets
    \/ ResolveConflict
    \/ UnregisterModAssets
    \/ LoadConfig
    \/ ClearCache
    \/ MergeConfigs

\* The calls that register, re-point and remove entries, and the cache fill
AssetPathsNext ==
    \/ RegisterMediaAssets
    \/ ResolveConflict
    \/ UnregisterModAssets
    \/ LoadConfig


(***************************************************************************)
(* Claims about AssetManager (checked under SpecAssets).                   *)
(***************************************************************************)
\* The first entry of a non-empty list that has the least priority value
FirstMin(l) ==
    l[CHOOSE i \in 1..Len(l) :
         /\ \A j \in 1..Len(l) : l[i].priority <= l[j].priority
         /\ \A j \in 1..(i - 1) : l[j].priority > l[i].priority]

\* C9: after register_mod_assets calls only, the primary table holds for
\* every registered asset name the entry with the least priority value among
\* all entries registered under that name, the earliest registered among
\* those of equal priority (an equal priority never displaces the
\* incumbent), and get_asset_path(name) returns the path of that entry.
C9_PrimaryIsFirstMinPriority ==
    am_pure =>
        \A n \in AssetNames :
           registered[n] # <<>> =>
              /\ n \in DOMAIN assets
              /\ assets[n] = FirstMin(registered[n])
              /\ get_asset_path(assets, n) = FirstMin(registered[n]).path

\* C9 witness: three mods registered one asset name, the first with a higher
\* priority value than the second, the third with the same as the second
C9_Witness ==
    /\ am_pure
    /\ \E n \in AssetNames :
          /\ Len(registered[n]) = 3
          /\ registered[n][1].priority > registered[n][2].priority
          /\ registered[n][2].priority = registered[n][3].priority
          /\ registered[n][2].mod_name # registered[n][3].mod_name
          /\ assets[n].mod_name = registered[n][2].mod_name

\* C10: merge_configs(name) merges the config file of every mod that
\* registered config/<name>.json: with two contributors at priorities
\* p1 < p2 the result holds every key of both files, a key that is a mapping
\* in both holds the keys of both mappings, and a scalar of the second
\* (priority p2) file is the value returned.
C10_MergeConfigsMergesAllContributors ==
    am_last.op = "merge_configs" =>
        LET l == sort_by_priority(registered["config/" \o am_last.name \o ".json"])
        IN (Len(l) = 2 /\ l[1].priority < l[2].priority) =>
              LET c1 == am_last.content[l[1].mod_name]
                  c2 == am_last.content[l[2].mod_name]
                  r == am_last.result
              IN \A k \in DOMAIN c1 \cup DOMAIN c2 :
                    /\ k \in DOMAIN r
                    /\ (k \in DOMAIN c2 /\ c2[k].t = "scalar") => r[k] = c2[k]
                    /\ (/\ k \in DOMAIN c1 /\ k \in DOMAIN c2
                        /\ c1[k].t = "dict" /\ c2[k].t = "dict")
                       => /\ r[k].t = "dict"
                          /\ DOMAIN r[k].v = DOMAIN c1[k].v \cup DOMAIN c2[k].v

\* The mods that registered asset name n and have not been unregistered
Contributors(n) == {e.mod_name : e \in Range(registered[n])}
\* The paths of the entries mod ns holds for asset name n
PathsOf(n, ns) == {e.path : e \in {x \in Range(registered[n]) : x.mod_name = ns}}

\* C22: when two or more mods are registered for one asset name,
\* get_conflicts() lists every entry registered under that name, and
\* resolve_conflict(name, ns) for each contributor ns returns True and makes
\* an entry of ns the one get_asset_path(name) returns; for a name without a
\* conflict list or a mod that is no contributor it returns False and
\* leaves the primary table unchanged (it never writes the conflict lists).
C22_ConflictsListedAndResolvable ==
    \A n \in AssetNames :
       /\ Cardinality(Contributors(n)) >= 2 =>
             /\ n \in DOMAIN conflicts
             /\ Range(registered[n]) \subseteq Range(conflicts[n])
             /\ \A ns \in Contributors(n) :
                   LET r == resolve_conflict(AM(assets, conflicts), n, ns)
                   IN /\ r.result
                      /\ r.assets[n].mod_name = ns
                      /\ get_asset_path(r.assets, n) \in PathsOf(n, ns)
       /\ \A ns \in AssetMods :
             (n \notin DOMAIN conflicts \/ ns \notin Contributors(n)) =>
                LET r == resolve_conflict(AM(assets, conflicts), n, ns)
                IN ~r.result /\ r.assets = assets

\* The part of C22 that holds: while only register_mod_assets has been
\* called, every contributing entry is listed
C22_ListedWhileNothingUnregistered ==
    am_pure =>
       \A n \in AssetNames :
          Cardinality(Contributors(n)) >= 2 =>
             n \in DOMAIN conflicts /\ Range(registered[n]) \subseteq Range(conflicts[n])

\* The paths of every entry currently registered
RegisteredPaths == UNION {{e.path : e \in Range(registered[n])} : n \in AssetNames}
\* What the four path getters return for the names queried
ReturnedPaths ==
    {get_asset_path(assets, q) : q \in AssetNames \cup TilesetQueries}
       \cup {get_tileset_path(assets, q) : q \in TilesetQueries}
       \cup {get_font_path(assets, q) : q \in FontQueries}
       \cup {get_sound_path(assets, q) : q \in SoundQueries}
\* No entry of mod ns in the primary table or in a conflict list of am
NoEntryOf(am, ns) ==
    /\ \A n \in DOMAIN am.assets : am.assets[n].mod_name # ns
    /\ \A n \in DOMAIN am.conflicts : \A e \in Range(am.conflicts[n]) : e.mod_name # ns

\* C23: in every state reached by register_mod_assets, resolve_conflict and
\* unregister_mod_assets, a path returned by get_asset_path,
\* get_tileset_path, get_font_path or get_sound_path is the path of an entry
\* of a mod currently registered for the asset it names; every entry of the
\* primary table and of the conflict lists is such an entry;
\* unregister_mod_assets(ns) leaves no entry of ns in either table and no
\* empty conflict list, and after it the config cache is empty.
C23_PathsBelongToRegisteredMods ==
    /\ ReturnedPaths \subseteq RegisteredPaths \cup {None}
    /\ \A n \in DOMAIN assets : assets[n] \in Range(registered[n])
    /\ \A n \in DOMAIN conflicts :
          conflicts[n] # <<>> /\ Range(conflicts[n]) \subseteq Range(registered[n])
    /\ \A ns \in AssetMods :
          LET am == unregister_mod_assets(AM(assets, conflicts), ns)
          IN /\ NoEntryOf(am, ns)
             /\ \A n \in DOMAIN am.conflicts : am.conflicts[n] # <<>>
    /\ am_last.op = "unregister_mod_assets" => asset_cache = EmptyDict

\* C23 witness: after an unregister_mod_assets call that left another mod's
\* entries in place, the tileset, font and sound getters each return a path
\* (the tileset and the font by falling back to "default")
C23_Witness ==
    /\ am_last.op = "unregister_mod_assets"
    /\ \E n \in DOMAIN conflicts : Len(conflicts[n]) = 1
    /\ get_tileset_path(assets, "classic") # None
    /\ get_font_path(assets, "fancy") # None
    /\ get_sound_path(assets, "click") # None
    /\ Cardinality({e.mod_name : e \in {assets[n] : n \in DOMAIN assets}}) = 1

(***************************************************************************)
(* Registry (mod_api.py): one registry of mod content                      *)
(***************************************************************************)
RegistryKeys == {"k1", "k2"}
RegistryMods == {"moda", "modb"}
\* The value a mod registers: its own name paired with a revision
RegistryValues == {<<m, v>> : m \in RegistryMods, v \in {1, 2}}
MaxRegistrations == 3

\* The Registry object: the two tables
Reg(e, m) == [entries |-> e, mod_entries |-> m]

\* Registry.register(key, value, mod_name)
register(r, key, value, mod_name) ==
    Reg(DictSet(r.entries, key, value),
        DictSet(r.mod_entries, mod_name,
                Append(IF mod_name \in DOMAIN r.mod_entries
                       THEN r.mod_entries[mod_name] ELSE <<>>, key)))

\* Registry.unregister(key)
unregister(r, key) == Reg(DictDel(r.entries, {key}), r.mod_entries)

\* Registry.unregister_mod_entries(mod_name)
unregister_mod_entries(r, mod_name) ==
    IF mod_name \in DOMAIN r.mod_entries
    THEN Reg(DictDel(r.entries, Range(r.mod_entries[mod_name])),
             DictDel(r.mod_entries, {mod_name}))
    ELSE r

RegistryInit ==
    /\ reg_entries = EmptyDict
    /\ reg_mod_entries = EmptyDict
    /\ last_owner = EmptyDict
    /\ reg_calls = 0

\* register(key, value, mod_name): a mod registers a value of its own
RegistryRegister ==
    /\ UNCHANGED <<evars, avars, mvars, dvars, svars, ivars, nvars>>
    /\ reg_calls < MaxRegistrations
    /\ \E key \in RegistryKeys, value \in RegistryValues :
          /\ reg_entries' = register(Reg(reg_entries, reg_mod_entries), key, value, value[1]).entries
          /\ reg_mod_entries' = register(Reg(reg_entries, reg_mod_entries), key, value, value[1]).mod_entries
          /\ last_owner' = DictSet(last_owner, key, value[1])
    /\ reg_calls' = reg_calls + 1

\* unregister(key)
RegistryUnregister ==
    /\ UNCHANGED <<evars, avars, mvars, dvars, svars, ivars, nvars>>
    /\ \E key \in RegistryKeys :
          /\ reg_entries' = unregister(Reg(reg_entries, reg_mod_entries), key).entries
          /\ reg_mod_entries' = unregister(Reg(reg_entries, reg_mod_entries), key).mod_entries
    /\ UNCHANGED <<last_owner, reg_calls>>

\* unregister_mod_entries(mod_name)
RegistryUnregisterModEntries ==
    /\ UNCHANGED <<evars, avars, mvars, dvars, svars, ivars, nvars>>
    /\ \E mod_name \in RegistryMods :
          /\ reg_entries' = unregister_mod_entries(Reg(reg_entries, reg_mod_entries), mod_name).entries
          /\ reg_mod_entries' =
                unregister_mod_entries(Reg(reg_entries, reg_mod_entries), mod_name).mod_entries
    /\ UNCHANGED <<last_owner, reg_calls>>

RegistryNext ==
    \/ RegistryRegister
    \/ RegistryUnregister
    \/ RegistryUnregisterModEntries

\* C24: after any sequence of register and unregister calls,
\* unregister_mod_entries(ns) removes every key whose most recent
\* registration was by ns and leaves every key whose most recent
\* registration was by another mod present with that mod's value.
C24_BulkRemovalFollowsLatestOwner ==
    \A ns \in RegistryMods :
       LET r == unregister_mod_entries(Reg(reg_entries, reg_mod_entries), ns)
       IN \A key \in DOMAIN reg_entries :
             IF last_owner[key] = ns
             THEN key \notin DOMAIN r.entries
             ELSE /\ key \in DOMAIN r.entries
                  /\ r.entries[key] = reg_entries[key]
                  /\ r.entries[key][1] = last_owner[key]

\* The part of C24 that holds: every key whose most recent registration was
\* by ns is removed
C24_KeysOfLatestOwnerRemoved ==
    \A ns \in RegistryMods :
       LET r == unregister_mod_entries(Reg(reg_entries, reg_mod_entries), ns)
       IN \A key \in DOMAIN reg_entries : last_owner[key] = ns => key \notin DOMAIN r.entries

(***************************************************************************)
(* ModSettings (mod_settings.py).  A Python value carries its type, a JSON *)
(* value its JSON kind, so that comparison and persistence are the ones    *)
(* of the interpreter and of the json module.                              *)
(***************************************************************************)
PyInt(n) == [t |-> "int", n |-> n, s |-> ""]
PyBool(b) == [t |-> "bool", n |-> IF b THEN 1 ELSE 0, s |-> ""]
PyStr(x) == [t |-> "str", n |-> 0, s |-> x]
PyNone == [t |-> "NoneType", n |-> 0, s |-> ""]
\* x == y and x != y of Python: bool is a subclass of int, so True == 1
py_eq(x, y) ==
    IF x.t \in {"int", "bool"} /\ y.t \in {"int", "bool"} THEN x.n = y.n
    ELSE x.t = y.t /\ x.s = y.s
py_ne(x, y) == ~py_eq(x, y)

\* json.dump of a value, and json.load of what was written
json_dump(x) ==
    IF x.t = "int" THEN [j |-> "number", n |-> x.n, s |-> ""]
    ELSE IF x.t = "bool" THEN [j |-> IF x.n = 1 THEN "true" ELSE "false", n |-> 0, s |-> ""]
    ELSE IF x.t = "str" THEN [j |-> "string", n |-> 0, s |-> x.s]
    ELSE [j |-> "null", n |-> 0, s |-> ""]
json_load(y) ==
    IF y.j = "number" THEN PyInt(y.n)
    ELSE IF y.j = "true" THEN PyBool(TRUE)
    ELSE IF y.j = "false" THEN PyBool(FALSE)
    ELSE IF y.j = "string" THEN PyStr(y.s)
    ELSE PyNone

NAMESPACE_SEPARATOR == "."
RESERVED_NAMESPACES == {"core", "base", "system", "builtin", "game"}
\* str.lower() on the mod names used
SettingsMods == {"ModA", "Core"}
LowerName == [ModA |-> "moda", Core |-> "core"]
\* The schema a mod hands to register_mod_settings: short key -> default, type
SettingsSchema ==
    [ModA |-> ("speed" :> [default |-> PyInt(1), type |-> "user"])
                @@ ("level" :> [default |-> PyInt(0), type |-> "framework"])
                @@ ("mode" :> [default |-> PyStr("easy"), type |-> "core"]),
     Core |-> EmptyDict]
SettingNamespaces == {"moda", "mod_core", "core"}
ShortKeys == {"speed", "level", "mode"}
FullKey(namespace, key) == namespace \o NAMESPACE_SEPARATOR \o key
\* The keys and values the host passes to set_setting, before or after the
\* mod registered its schema
SettingKeys == {FullKey("moda", "speed"), FullKey("moda", "level"), FullKey("moda", "mode")}
SettingValues == {PyInt(0), PyBool(TRUE), PyStr("hard")}
MaxSets == 3

SettingInfo(key, value, default, setting_type, description, mod_name) ==
    [key |-> key, value |-> value, default |-> default, setting_type |-> setting_type,
     description |-> description, mod_name |-> mod_name]

\* The ModSettings object: the two tables
MS(st, ns) == [settings |-> st, namespaces |-> ns]

\* ModSettings.register_mod_settings(mod_name, settings_schema)
register_mod_settings(ms, mod_name, settings_schema) ==
    LET namespace == IF LowerName[mod_name] \in RESERVED_NAMESPACES
                     THEN "mod_" \o LowerName[mod_name] ELSE LowerName[mod_name]
        added == {FullKey(namespace, k) : k \in DOMAIN settings_schema}
        short(fk) == CHOOSE k \in DOMAIN settings_schema : FullKey(namespace, k) = fk
    IN MS([fk \in DOMAIN ms.settings \cup added |->
              IF fk \in added
              THEN SettingInfo(fk, settings_schema[short(fk)].default,
                               settings_schema[short(fk)].default,
                               settings_schema[short(fk)].type, "", mod_name)
              ELSE ms.settings[fk]],
          DictSet(ms.namespaces, namespace, mod_name))

\* ModSettings.get_setting(key), default None
get_setting(st, key) == IF key \in DOMAIN st THEN st[key].value ELSE PyNone

\* ModSettings._get_mod_name_from_key
get_mod_name_from_key(namespaces_, key) ==
    IF \E n \in SettingNamespaces, k \in ShortKeys : key = FullKey(n, k)
    THEN LET n == CHOOSE n \in SettingNamespaces : \E k \in ShortKeys : key = FullKey(n, k)
         IN IF n \in DOMAIN namespaces_ THEN namespaces_[n] ELSE "unknown"
    ELSE "core"

\* set_setting that lets a core setting be modified
set_setting_ignores_kind(ms, key, value) ==
    IF key \notin DOMAIN ms.settings
    THEN [settings |-> DictSet(ms.settings, key,
                               SettingInfo(key, value, value, "user", "",
                                           get_mod_name_from_key(ms.namespaces, key))),
          result |-> TRUE]
    ELSE [settings |-> DictSet(ms.settings, key, [ms.settings[key] EXCEPT !.value = value]),
          result |-> TRUE]

\* ModSettings.set_setting(key, value): the table after the call and what
\* the call returns
set_setting(ms, key, value) ==
    IF key \notin DOMAIN ms.settings
    THEN [settings |-> DictSet(ms.settings, key,
                               SettingInfo(key, value, value, "user", "",
                                           get_mod_name_from_key(ms.namespaces, key))),
          result |-> TRUE]
    ELSE IF ms.settings[key].setting_type = "core"
    THEN [settings |-> ms.settings, result |-> FALSE]
    ELSE [settings |-> DictSet(ms.settings, key, [ms.settings[key] EXCEPT !.value = value]),
          result |-> TRUE]

\* config/mod_settings.json when it does not exist
NoFile == [exists |-> FALSE]
\* A settings file written by hand: a simple key-value pair
SimpleFile ==
    [exists |-> TRUE,
     data |-> (FullKey("moda", "speed") :> [full |-> FALSE, value |-> json_dump(PyInt(0))])]
SettingsFiles == {NoFile, SimpleFile}

\* ModSettings.save_settings: the file it writes
save_settings(st) ==
    LET saved == {k \in DOMAIN st : py_ne(st[k].value, st[k].default)}
    IN [exists |-> TRUE,
        data |-> [k \in saved |->
                    [full |-> TRUE,
                     value |-> json_dump(st[k].value),
                     default |-> json_dump(st[k].default),
                     type |-> st[k].setting_type,
                     description |-> st[k].description,
                     mod_name |-> st[k].mod_name]]]

\* ModSettings._load_settings on a new instance: the settings it holds
load_settings(file) ==
    IF ~file.exists THEN EmptyDict
    ELSE [k \in DOMAIN file.data |->
            IF file.data[k].full
            THEN SettingInfo(k, json_load(file.data[k].value), json_load(file.data[k].default),
                             file.data[k].type, file.data[k].description,
                             file.data[k].mod_name)
            ELSE SettingInfo(k, json_load(file.data[k].value), json_load(file.data[k].value),
                             "user", "", get_mod_name_from_key(EmptyDict, k))]

\* mod_settings = ModSettings() with no settings file
SettingsInit ==
    /\ ms_settings = EmptyDict
    /\ namespaces = EmptyDict
    /\ settings_file = NoFile
    /\ ms_last = [op |-> "init", result |-> TRUE, sets |-> 0]

\* register_mod_settings(mod_name, settings_schema)
RegisterModSettings ==
    /\ UNCHANGED <<evars, avars, mvars, dvars, rvars, ivars, nvars>>
    /\ \E mod_name \in SettingsMods :
          LET ms == register_mod_settings(MS(ms_settings, namespaces), mod_name,
                                          SettingsSchema[mod_name])
          IN /\ ms_settings' = ms.settings
             /\ namespaces' = ms.namespaces
    /\ ms_last' = [op |-> "register_mod_settings", result |-> TRUE, sets |-> ms_last.sets]
    /\ UNCHANGED settings_file

\* set_setting(key, value)
SetSetting ==
    /\ UNCHANGED <<evars, avars, mvars, dvars, rvars, ivars, nvars>>
    /\ ms_last.sets < MaxSets
    /\ \E key \in SettingKeys, value \in SettingValues :
          LET r == set_setting(MS(ms_settings, namespaces), key, value)
          IN /\ ms_settings' = r.settings
             /\ ms_last' = [op |-> "set_setting", result |-> r.result,
                            sets |-> ms_last.sets + 1]
    /\ UNCHANGED <<namespaces, settings_file>>

\* save_settings()
SaveSettings ==
    /\ UNCHANGED <<evars, avars, mvars, dvars, rvars, ivars, nvars>>
    /\ settings_file' = save_settings(ms_settings)
    /\ ms_last' = [op |-> "save_settings", result |-> TRUE, sets |-> ms_last.sets]
    /\ UNCHANGED <<ms_settings, namespaces>>

\* ModSettings(): a new instance, which loads the settings file
NewModSettings ==
    /\ UNCHANGED <<evars, avars, mvars, dvars, rvars, ivars, nvars>>
    /\ ms_settings' = load_settings(settings_file)
    /\ namespaces' = EmptyDict
    /\ ms_last' = [op |-> "ModSettings", result |-> TRUE, sets |-> ms_last.sets]
    /\ UNCHANGED settings_file

SettingsNext ==
    \/ RegisterModSettings
    \/ SetSetting
    \/ SaveSettings
    \/ NewModSettings

\* C27: after register_mod_settings, set_setting and save_settings, a new
\* ModSettings instance that loads the file returns from get_setting the
\* value of every setting whose value is not its default, and a setting
\* whose value is its default is not in the file.
C27_SavedSettingsRoundTrip ==
    ms_last.op = "save_settings" =>
       \A key \in DOMAIN ms_settings :
          /\ ms_settings[key].value # ms_settings[key].default =>
                get_setting(load_settings(settings_file), key) = ms_settings[key].value
          /\ ms_settings[key].value = ms_settings[key].default =>
                key \notin DOMAIN settings_file.data

\* The part of C27 that holds: the round trip of every value that the
\* interpreter's != tells from the default, and the omission of the others
C27_RoundTripOfValuesComparedUnequal ==
    ms_last.op = "save_settings" =>
       \A key \in DOMAIN ms_settings :
          /\ py_ne(ms_settings[key].value, ms_settings[key].default) =>
                get_setting(load_settings(settings_file), key) = ms_settings[key].value
          /\ py_eq(ms_settings[key].value, ms_settings[key].default) =>
                key \notin DOMAIN settings_file.data

\* C28: set_setting on an existing setting of kind core returns False and
\* leaves the table unchanged; on an existing setting of kind framework or
\* user it returns True and get_setting then returns the new value.
C28_CoreSettingsRejectMutation ==
    \A key \in DOMAIN ms_settings, value \in SettingValues :
       LET r == set_setting(MS(ms_settings, namespaces), key, value)
       IN IF ms_settings[key].setting_type = "core"
          THEN ~r.result /\ r.settings = ms_settings
          ELSE ms_settings[key].setting_type \in {"framework", "user"} =>
                  r.result /\ get_setting(r.settings, key) = value

\* C28 witness: a set_setting call on the registered core setting returned
\* False and left it at its default, while the framework setting and the
\* user setting hold values that calls have given them
C28_Witness ==
    /\ ms_last.op = "set_setting"
    /\ ~ms_last.result
    /\ FullKey("moda", "mode") \in DOMAIN ms_settings
    /\ ms_settings[FullKey("moda", "mode")].value = PyStr("easy")
    /\ ms_settings[FullKey("moda", "level")].setting_type = "framework"
    /\ ms_settings[FullKey("moda", "level")].value = PyBool(TRUE)
    /\ ms_settings[FullKey("moda", "speed")].value = PyInt(0)

\* ModSystemIntegration(): not initialized
FacadeInit ==
    /\ initialized = FALSE
    /\ facade_last = [op |-> "init", result |-> None, parity |-> 0]

(***************************************************************************)
(* ModManager: descriptors and dependency resolution                       *)
(***************************************************************************)
\* config/constants.py MOD_DEPENDENCY_TYPES
REQUIRED == "hard_dependency"
OPTIONAL == "soft_dependency"
INCOMPATIBLE == "conflict"
BEFORE == "load_order_before"
AFTER == "load_order_after"

\* The namespaces of the mods that may be on disk
Mods == AssetMods

\* Sequences of distinct namespaces
RECURSIVE Perms(_)
Perms(S) ==
    IF S = {} THEN {<<>>}
    ELSE UNION {{<<x>> \o p : p \in Perms(S \ {x})} : x \in S}
Orders == UNION {Perms(S) : S \in SUBSET Mods}

\* ModInfo(data, mod_path): the descriptor made from a manifest
ModInfo(ns, deps, prio) ==
    [namespace |-> ns, dependencies |-> deps, load_priority |-> prio,
     loaded |-> FALSE, mod_instance |-> None]

\* Dict helpers on lists of descriptors keyed by namespace
Keys(d) == [i \in 1..Len(d) |-> d[i].namespace]
KeySet(d) == {d[i].namespace : i \in 1..Len(d)}
Lookup(d, ns) == d[CHOOSE i \in 1..Len(d) : d[i].namespace = ns]

\* resolve_dependencies, lines 190-201: the (mod, dep, type) triples in the
\* order the two nested loops visit them
RECURSIVE DepTriples(_)
DepTriples(d) ==
    IF d = <<>> THEN <<>>
    ELSE [i \in 1..Len(d[1].dependencies) |->
             [mod |-> d[1].namespace, dep |-> d[1].dependencies[i][1],
              type |-> d[1].dependencies[i][2]]]
         \o DepTriples(Tail(d))

\* An edge builder that skips a REQUIRED dependency that is not discovered
RECURSIVE build_edges_skips_missing(_, _, _)
build_edges_skips_missing(triples, edges, known) ==
    IF triples = <<>> THEN [raised |-> FALSE, edges |-> edges]
    ELSE LET t == triples[1]
         IN IF t.type \in {REQUIRED, AFTER} /\ t.dep \in known
            THEN build_edges_skips_missing(Tail(triples),
                    [edges EXCEPT ![t.dep] = Append(@, t.mod)], known)
            ELSE IF t.type = BEFORE
            THEN build_edges_skips_missing(Tail(triples),
                    [edges EXCEPT ![t.mod] = Append(@, t.dep)], known)
            ELSE build_edges_skips_missing(Tail(triples), edges, known)

\* resolve_dependencies, lines 190-201: edges[x] lists the mods to load after
\* x; a REQUIRED dependency that is not discovered raises
RECURSIVE build_edges(_, _, _)
build_edges(triples, edges, known) ==
    IF triples = <<>> THEN [raised |-> FALSE, edges |-> edges]
    ELSE LET t == triples[1]
         IN IF t.type = REQUIRED
            THEN IF t.dep \notin known
                 THEN [raised |-> TRUE, error |-> "missing", mod |-> t.mod, dep |-> t.dep]
                 ELSE build_edges(Tail(triples),
                         [edges EXCEPT ![t.dep] = Append(@, t.mod)], known)
            ELSE IF t.type = AFTER
            THEN build_edges(Tail(triples),
                    [edges EXCEPT ![t.dep] = Append(@, t.mod)], known)
            ELSE IF t.type = BEFORE
            THEN build_edges(Tail(triples),
                    [edges EXCEPT ![t.mod] = Append(@, t.dep)], known)
            ELSE build_edges(Tail(triples), edges, known)

NoEdges == [n \in Mods |-> <<>>]

\* resolve_dependencies.visit, lines 207-217, and the loop over edges[node]
RECURSIVE visit(_, _, _)
RECURSIVE visit_all(_, _, _)
visit(node, st, edges) ==
    IF st.raised THEN st
    ELSE IF node \in st.temp
    THEN [st EXCEPT !.raised = TRUE, !.culprit = node]
    ELSE IF node \in st.visited THEN st
    ELSE LET st1 == visit_all(edges[node], [st EXCEPT !.temp = @ \cup {node}], edges)
         IN IF st1.raised THEN st1
            ELSE [st1 EXCEPT !.temp = @ \ {node}, !.visited = @ \cup {node},
                             !.load_order = Append(@, node)]

visit_all(nodes, st, edges) ==
    IF nodes = <<>> \/ st.raised THEN st
    ELSE visit_all(Tail(nodes), visit(nodes[1], st, edges), edges)

\* resolve_dependencies, lines 203-221: the depth-first search from every
\* discovered mod, in dict order
topo(keys, edges) ==
    visit_all(keys, [raised |-> FALSE, culprit |-> None, load_order |-> <<>>,
                     visited |-> {}, temp |-> {}], edges)

\* preferred_order as order_index: the last index of a name in the list,
\* len(order_index) for a name that is not in it
order_index(preferred, n) ==
    LET I == {i \in 1..Len(preferred) : preferred[i] = n}
    IN IF I = {} THEN Cardinality(Range(preferred))
       ELSE (CHOOSE i \in I : \A j \in I : j <= i) - 1

\* sorted(load_order, key=...): stable
RECURSIVE sorted_by_index(_, _)
sorted_by_index(l, preferred) ==
    IF l = <<>> THEN <<>>
    ELSE LET rest == sorted_by_index(SubSeq(l, 1, Len(l) - 1), preferred)
             x == l[Len(l)]
             n == Cardinality({i \in 1..Len(rest) :
                     order_index(preferred, rest[i]) <= order_index(preferred, x)})
         IN InsertAt(rest, n + 1, x)

\* pos.get(m, -1) for the candidate order
pos(candidate, m) ==
    LET I == {i \in 1..Len(candidate) : candidate[i] = m}
    IN IF I = {} THEN -1 ELSE (CHOOSE i \in I : TRUE) - 1

\* resolve_dependencies, lines 223-235
apply_preferred(load_order, edges, preferred) ==
    IF preferred = <<>> THEN load_order
    ELSE LET candidate == sorted_by_index(load_order, preferred)
         IN IF \E i \in 1..Len(candidate) :
                  \E j \in 1..Len(edges[candidate[i]]) :
                     pos(candidate, edges[candidate[i]][j]) > pos(candidate, candidate[i])
            THEN load_order
            ELSE candidate

\* resolve_dependencies(preferred_order): raised with the error, or the order
\* (which the caller stores in mod_load_order); no preferred_order is <<>>
resolve_dependencies(d, preferred) ==
    LET b == build_edges(DepTriples(d), NoEdges, KeySet(d))
    IN IF b.raised THEN b
       ELSE LET t == topo(Keys(d), b.edges)
            IN IF t.raised
               THEN [raised |-> TRUE, error |-> "cycle", mod |-> t.culprit, dep |-> None]
               ELSE [raised |-> FALSE, edges |-> b.edges,
                     load_order |-> apply_preferred(t.load_order, b.edges, preferred)]

(***************************************************************************)
(* ModManager: load, unload and the batch operations                       *)
(*                                                                         *)
(* The manager is wired as ModSystemIntegration.initialize leaves it:      *)
(* event_system and asset_manager are set.  No handler is registered for   *)
(* mod.load or mod.unload, so publishing them only counts them.  A call    *)
(* is one step: the hooks of a mod do not call back into the manager.      *)
(***************************************************************************)
\* MOD_SAFETY_LIMITS['MAX_MODS_LOADED'] is 50 in config/constants.py; the
\* model scales it down so that three mods can reach the cap
MAX_MODS_LOADED == 2

MOD_LOAD == "mod.load"
MOD_UNLOAD == "mod.unload"

\* The most mod.load events published in one behaviour
MaxModLoads == 3

\* What the disk and the mod's code do during one load_mod call
LoadBehaviours ==
    {"no_script",      \* scripts/init.py is not a file
     "no_spec",        \* spec_from_file_location gives no spec or loader
     "exec_raises",    \* executing the module raises
     "no_mod_class",   \* the module has no attribute Mod
     "ctor_raises",    \* Mod(mod_info) raises
     "init_raises",    \* Mod(mod_info).initialize() raises
     "ok"}
\* One behaviour per outcome, for the calls that load several mods
BatchBehaviours == {"no_script", "no_mod_class", "init_raises", "ok"}
CleanupBehaviours == {"ok", "raises"}

\* The files under <mod_path>/assets and the load_priority of each manifest
ModAssetFiles == [m \in Mods |-> IF m = "moda" THEN AssetFiles ELSE {}]
ModLoadPriority == [m \in Mods |-> IF m = "moda" THEN 100 ELSE 500]

\* The manager with the objects it is wired to (event_system, asset_manager,
\* sys.modules); calls, emitted and dispatched are the history of the running
\* call, and handler is what the handlers of mod.load and mod.unload do
Manager ==
    [discovered_mods |-> discovered_mods, loaded_mods |-> loaded_mods,
     mod_load_order |-> mod_load_order, sys_modules |-> sys_modules,
     settings |-> settings, assets |-> assets, conflicts |-> conflicts,
     registered |-> registered, event_stats |-> event_stats,
     calls |-> <<>>, emitted |-> <<>>, ret |-> None,
     handler |-> "none", dispatched |-> <<>>]

\* dict[ns] = info, keeping the position of an existing key
Store(d, info) ==
    IF info.namespace \in KeySet(d)
    THEN [i \in 1..Len(d) |-> IF d[i].namespace = info.namespace THEN info ELSE d[i]]
    ELSE Append(d, info)
\* del dict[ns]
Delete(d, ns) == SelectSeq(d, LAMBDA x : x.namespace # ns)

\* An entry of loaded_mods: the descriptor, and whether it is the very object
\* that discovered_mods holds under the same key
Entry(info, alias) ==
    [namespace |-> info.namespace, dependencies |-> info.dependencies,
     load_priority |-> info.load_priority, loaded |-> info.loaded,
     mod_instance |-> info.mod_instance, alias |-> alias]

\* What the handlers registered for mod.load and mod.unload may do
ModEventHandlers == {"none", "returns", "raises"}

\* event_system.emit_event(name, payload) from load_mod and unload_mod: the
\* handler, if there is one, sees the loaded set of the moment; what it
\* raises is caught in the loop of emit_event, and the statistics are updated
emit_event(M, name, mod) ==
    [M EXCEPT !.event_stats = [@ EXCEPT ![name] = @ + 1],
              !.emitted = Append(@, <<name, mod>>),
              !.dispatched =
                  Append(@, [event |-> name, mod |-> mod,
                             in_loaded |-> mod \in KeySet(M.loaded_mods),
                             handler |-> CASE M.handler = "none" -> "not_called"
                                           [] M.handler = "returns" -> "returned"
                                           [] M.handler = "raises" -> "caught"])]

\* The history of registrations after register_mod_assets
registered_after(reg, mod, prio, files) ==
    [n \in AssetNames |->
        IF \E f \in files : f.name = n /\ determine_asset_type(f) # None
        THEN Append(reg[n],
                 AssetInfo(n, AssetPath(mod, n), mod, prio,
                           determine_asset_type(CHOOSE f \in files : f.name = n)))
        ELSE reg[n]]

\* A load that publishes mod.load before the mod is stored in loaded_mods
finish_load_emits_first(M, mod_name, beh) ==
    LET info == Lookup(M.discovered_mods, mod_name)
        inst == IF beh = "no_mod_class" THEN info.mod_instance ELSE "instance"
        am == register_mod_assets(AM(M.assets, M.conflicts), mod_name,
                                  info.load_priority, ModAssetFiles[mod_name])
        done == [info EXCEPT !.mod_instance = inst, !.loaded = TRUE]
        M1 == emit_event(M, MOD_LOAD, mod_name)
    IN [M1 EXCEPT
          !.discovered_mods = Store(@, done),
          !.loaded_mods = Store(@, Entry(done, TRUE)),
          !.assets = am.assets,
          !.conflicts = am.conflicts,
          !.registered = registered_after(@, mod_name, info.load_priority,
                                          ModAssetFiles[mod_name]),
          !.ret = TRUE]

\* load_mod, lines 285-317: from the lookup of the Mod class to the end
finish_load(M, mod_name, beh) ==
    LET info == Lookup(M.discovered_mods, mod_name)
        inst == IF beh = "no_mod_class" THEN info.mod_instance ELSE "instance"
        am == register_mod_assets(AM(M.assets, M.conflicts), mod_name,
                                  info.load_priority, ModAssetFiles[mod_name])
        done == [info EXCEPT !.mod_instance = inst, !.loaded = TRUE]
        M1 == [M EXCEPT
                 !.discovered_mods = Store(@, done),
                 !.loaded_mods = Store(@, Entry(done, TRUE)),
                 !.assets = am.assets,
                 !.conflicts = am.conflicts,
                 !.registered = registered_after(@, mod_name, info.load_priority,
                                                 ModAssetFiles[mod_name]),
                 !.ret = TRUE]
    IN emit_event(M1, MOD_LOAD, mod_name)

\* A load_mod that refuses only above the cap
load_mod_above_cap(M0, mod_name, beh) ==
    LET M == [M0 EXCEPT !.calls = Append(@, mod_name)]
    IN IF mod_name \notin KeySet(M.discovered_mods) THEN [M EXCEPT !.ret = FALSE]
       ELSE IF mod_name \in KeySet(M.loaded_mods) THEN [M EXCEPT !.ret = TRUE]
       ELSE IF Len(M.loaded_mods) > MAX_MODS_LOADED THEN [M EXCEPT !.ret = FALSE]
       ELSE IF beh = "no_script" THEN [M EXCEPT !.ret = FALSE]
       ELSE IF mod_name \notin M.sys_modules /\ beh = "no_spec"
       THEN [M EXCEPT !.ret = FALSE]
       ELSE IF mod_name \notin M.sys_modules /\ beh = "exec_raises"
       THEN \* the except clause removes the module added at line 280
            [M EXCEPT !.ret = FALSE]
       ELSE IF beh = "ctor_raises"
       THEN [M EXCEPT !.sys_modules = @ \ {mod_name}, !.ret = FALSE]
       ELSE IF beh = "init_raises"
       THEN [M EXCEPT !.discovered_mods =
                          Store(@, [Lookup(@, mod_name) EXCEPT !.mod_instance = "instance"]),
                      !.sys_modules = @ \ {mod_name},
                      !.ret = FALSE]
       ELSE finish_load([M EXCEPT !.sys_modules = @ \cup {mod_name}], mod_name, beh)

\* load_mod(mod_name): beh is what the disk and the mod's code do
load_mod(M0, mod_name, beh) ==
    LET M == [M0 EXCEPT !.calls = Append(@, mod_name)]
    IN IF mod_name \notin KeySet(M.discovered_mods) THEN [M EXCEPT !.ret = FALSE]
       ELSE IF mod_name \in KeySet(M.loaded_mods) THEN [M EXCEPT !.ret = TRUE]
       ELSE IF Len(M.loaded_mods) >= MAX_MODS_LOADED THEN [M EXCEPT !.ret = FALSE]
       ELSE IF beh = "no_script" THEN [M EXCEPT !.ret = FALSE]
       ELSE IF mod_name \notin M.sys_modules /\ beh = "no_spec"
       THEN [M EXCEPT !.ret = FALSE]
       ELSE IF mod_name \notin M.sys_modules /\ beh = "exec_raises"
       THEN \* the except clause removes the module added at line 280
            [M EXCEPT !.ret = FALSE]
       ELSE IF beh = "ctor_raises"
       THEN [M EXCEPT !.sys_modules = @ \ {mod_name}, !.ret = FALSE]
       ELSE IF beh = "init_raises"
       THEN [M EXCEPT !.discovered_mods =
                          Store(@, [Lookup(@, mod_name) EXCEPT !.mod_instance = "instance"]),
                      !.sys_modules = @ \ {mod_name},
                      !.ret = FALSE]
       ELSE finish_load([M EXCEPT !.sys_modules = @ \cup {mod_name}], mod_name, beh)

\* unload_mod(mod_name): cleanup is what the mod's cleanup hook does
unload_mod(M, mod_name, cleanup) ==
    IF mod_name \notin KeySet(M.loaded_mods) THEN [M EXCEPT !.ret = FALSE]
    ELSE LET e == Lookup(M.loaded_mods, mod_name)
         IN IF e.mod_instance # None /\ cleanup = "raises"
            THEN [M EXCEPT !.ret = FALSE]
            ELSE LET M1 ==
                       [M EXCEPT
                          !.loaded_mods = Delete(@, mod_name),
                          !.discovered_mods =
                              IF e.alias
                              THEN Store(@, [Lookup(@, mod_name) EXCEPT
                                                !.loaded = FALSE, !.mod_instance = None])
                              ELSE @,
                          !.sys_modules = @ \ {mod_name},
                          !.ret = TRUE]
                 IN emit_event(M1, MOD_UNLOAD, mod_name)

\* A dict of results: mod name -> bool, in insertion order
SetResult(results, name, ret) ==
    IF \E i \in 1..Len(results) : results[i][1] = name
    THEN [i \in 1..Len(results) |->
             IF results[i][1] = name THEN <<name, ret>> ELSE results[i]]
    ELSE Append(results, <<name, ret>>)

\* A loop over the batch that gives up at the first load that fails
RECURSIVE load_each_stops_at_failure(_, _, _, _)
load_each_stops_at_failure(M, names, behs, results) ==
    IF names = <<>> THEN [M EXCEPT !.ret = results]
    ELSE LET after(M1) ==
                 IF M1.ret
                 THEN load_each_stops_at_failure(M1, Tail(names), behs,
                                                 SetResult(results, names[1], M1.ret))
                 ELSE [M1 EXCEPT !.ret = SetResult(results, names[1], FALSE)]
         IN after(load_mod(M, names[1], behs[names[1]]))

\* for mod_name in names: results[mod_name] = self.load_mod(mod_name)
RECURSIVE load_each(_, _, _, _)
load_each(M, names, behs, results) ==
    IF names = <<>> THEN [M EXCEPT !.ret = results]
    ELSE LET after(M1) ==
                 load_each(M1, Tail(names), behs, SetResult(results, names[1], M1.ret))
         IN after(load_mod(M, names[1], behs[names[1]]))

\* for mod_name in names: results[mod_name] = self.unload_mod(mod_name)
RECURSIVE unload_each(_, _, _, _)
unload_each(M, names, cleanups, results) ==
    IF names = <<>> THEN [M EXCEPT !.ret = results]
    ELSE LET after(M1) ==
                 unload_each(M1, Tail(names), cleanups, SetResult(results, names[1], M1.ret))
         IN after(unload_mod(M, names[1], cleanups[names[1]]))

Reverse(s) == [i \in 1..Len(s) |-> s[Len(s) + 1 - i]]

\* An unload_all_mods that walks the loaded mods in the order they were loaded
unload_all_mods_in_load_order(M, cleanups) ==
    unload_each(M, Keys(M.loaded_mods), cleanups, <<>>)

\* unload_all_mods()
unload_all_mods(M, cleanups) ==
    unload_each(M, Reverse(Keys(M.loaded_mods)), cleanups, <<>>)

\* reload_mod(mod_name)
reload_mod(M, mod_name, cleanup, beh) ==
    LET M1 == unload_mod(M, mod_name, cleanup)
    IN IF ~M1.ret THEN M1 ELSE load_mod(M1, mod_name, beh)

\* reload_all_mods()
reload_all_mods(M, cleanups, behs) ==
    load_each(unload_all_mods(M, cleanups), Keys(M.loaded_mods), behs, <<>>)

\* load_all_mods.include_mod, lines 352-359: the enabled mods that are
\* discovered, closed under their REQUIRED dependencies that are discovered
RECURSIVE include_mod(_, _, _)
include_mod(d, mod_name, mods_to_load) ==
    IF mod_name \notin KeySet(d) \/ mod_name \in mods_to_load THEN mods_to_load
    ELSE LET deps == Lookup(d, mod_name).dependencies
             RECURSIVE include_deps(_, _)
             include_deps(i, acc) ==
                 IF i > Len(deps) THEN acc
                 ELSE include_deps(i + 1,
                         IF deps[i][2] = REQUIRED THEN include_mod(d, deps[i][1], acc)
                         ELSE acc)
         IN include_deps(1, mods_to_load \cup {mod_name})

RECURSIVE include_all(_, _, _)
include_all(d, names, mods_to_load) ==
    IF names = <<>> THEN mods_to_load
    ELSE include_all(d, Tail(names), include_mod(d, names[1], mods_to_load))

\* load_all_mods(): behs is what the disk and each mod's code do
load_all_mods(M, behs) ==
    LET first_run == M.settings.enabled_mods = <<>>
                       /\ "_mods_initialized" \notin DOMAIN M.settings
        preferred == IF first_run THEN Keys(M.discovered_mods)
                     ELSE M.settings.enabled_mods
        M1 == IF first_run
              THEN [M EXCEPT !.settings =
                      [enabled_mods |-> preferred, _mods_initialized |-> TRUE]]
              ELSE M
        r == resolve_dependencies(M1.discovered_mods, preferred)
    IN IF preferred = <<>> THEN [M1 EXCEPT !.ret = <<>>]
       ELSE IF r.raised
       THEN \* the fallback: mods_to_load is not bound yet
            load_each(M1, Keys(M1.discovered_mods), behs, <<>>)
       ELSE LET mods_to_load == include_all(M1.discovered_mods, preferred, {})
                wanted == SelectSeq(r.load_order, LAMBDA n : n \in mods_to_load)
                level0 == SelectSeq(wanted,
                            LAMBDA n : Lookup(M1.discovered_mods, n).dependencies = <<>>)
                level1 == SelectSeq(wanted,
                            LAMBDA n : Lookup(M1.discovered_mods, n).dependencies # <<>>)
            IN load_each([M1 EXCEPT !.mod_load_order = r.load_order],
                         level0 \o level1, behs, <<>>)

\* discover_mods when it scans: scan lists the namespaces of the valid
\* manifests in the order the directories are read
discover_mods(M, scan, disk) ==
    [M EXCEPT
       !.discovered_mods =
           [i \in 1..Len(scan) |-> ModInfo(scan[i], disk[scan[i]], ModLoadPriority[scan[i]])],
       !.loaded_mods = [i \in 1..Len(@) |-> [@[i] EXCEPT !.alias = FALSE]]]

(***************************************************************************)
(* ModManager: discovery.  A name is the sequence of its characters, so    *)
(* that the namespace is computed from it as _validate_namespace does.     *)
(***************************************************************************)
UpperChars == <<"A", "B", "C", "D", "E", "F", "G", "H", "I", "J", "K", "L", "M",
                "N", "O", "P", "Q", "R", "S", "T", "U", "V", "W", "X", "Y", "Z">>
LowerChars == <<"a", "b", "c", "d", "e", "f", "g", "h", "i", "j", "k", "l", "m",
                "n", "o", "p", "q", "r", "s", "t", "u", "v", "w", "x", "y", "z">>
Digits == {"0", "1", "2", "3", "4", "5", "6", "7", "8", "9"}

\* str.lower() on one character
lower(c) ==
    IF \E i \in 1..Len(UpperChars) : UpperChars[i] = c
    THEN LowerChars[CHOOSE i \in 1..Len(UpperChars) : UpperChars[i] = c]
    ELSE c

\* MOD_NAMESPACE_RULES
VALID_CHARS == Range(LowerChars) \cup Digits \cup {"_"}
RESERVED_NAMES ==
    {<<"c", "o", "r", "e">>, <<"b", "a", "s", "e">>, <<"s", "y", "s", "t", "e", "m">>,
     <<"b", "u", "i", "l", "t", "i", "n">>}
MAX_LENGTH == 32

\* str.lower() on a string: the letter U+0130 becomes two characters, every
\* other character one
RECURSIVE str_lower(_)
str_lower(name) ==
    IF name = <<>> THEN <<>>
    ELSE (IF name[1] = "U+0130" THEN <<"i", "U+0307">> ELSE <<lower(name[1])>>)
            \o str_lower(Tail(name))

\* _validate_namespace that does not prefix a reserved name
validate_namespace_keeps_reserved(name) ==
    LET replaced == [i \in 1..Len(str_lower(name)) |->
                        IF str_lower(name)[i] \in VALID_CHARS
                        THEN str_lower(name)[i] ELSE "_"]
    IN IF Len(replaced) > MAX_LENGTH THEN SubSeq(replaced, 1, MAX_LENGTH) ELSE replaced

\* ModInfo._validate_namespace(name)
validate_namespace(name) ==
    LET replaced == [i \in 1..Len(str_lower(name)) |->
                        IF str_lower(name)[i] \in VALID_CHARS
                        THEN str_lower(name)[i] ELSE "_"]
        namespace == IF replaced \in RESERVED_NAMES
                     THEN <<"m", "o", "d", "_">> \o replaced
                     ELSE replaced
    IN IF Len(namespace) > MAX_LENGTH THEN SubSeq(namespace, 1, MAX_LENGTH) ELSE namespace

\* No ModInfo is under construction
NoModInfo == mod_info = [name |-> <<>>, derived |-> TRUE, namespace |-> <<>>]

\* The names whose namespace is derived: a stem, which may be a reserved
\* word in any case or hold characters that are not valid, followed by
\* padding that brings the length below, to and above MAX_LENGTH
RECURSIVE Repeat(_, _)
Repeat(c, k) == IF k = 0 THEN <<>> ELSE <<c>> \o Repeat(c, k - 1)
NameStems ==
    {<<>>, <<"c", "o", "r", "e">>, <<"B", "a", "s", "e">>, <<"S", "Y", "S", "T", "E", "M">>,
     <<"b", "u", "i", "l", "t", "i", "n">>, <<"m", "o", "d", "_", "c", "o", "r", "e">>,
     <<"M", "o", "d", " ", "A">>, <<"a", "-", "b", ".", "9">>,
     <<"U+0130", "U+00E9", "x">>, <<"c", "o", "r", "U+00E9">>}
PadChars == {"x", " ", "U+0130"}
PadLengths == {0, 1} \cup ((MAX_LENGTH - 8)..(MAX_LENGTH + 1))
ModNames == {stem \o Repeat(c, k) : stem \in NameStems, c \in PadChars, k \in PadLengths}

\* ModInfo(data, mod_path) up to the assignment of self.namespace
NamespaceInit == mod_info \in {[name |-> n, derived |-> FALSE, namespace |-> <<>>] : n \in ModNames}

\* self.namespace = self._validate_namespace(self.name)
DeriveNamespace ==
    /\ UNCHANGED <<evars, avars, mvars, dvars, rvars, svars, ivars>>
    /\ ~mod_info.derived
    /\ mod_info' = [mod_info EXCEPT !.derived = TRUE,
                                    !.namespace = validate_namespace(mod_info.name)]

\* ModInfo(data, mod_path) for the next manifest
NewModInfo ==
    /\ UNCHANGED <<evars, avars, mvars, dvars, rvars, svars, ivars>>
    /\ mod_info.derived
    /\ \E n \in ModNames : mod_info' = [name |-> n, derived |-> FALSE, namespace |-> <<>>]

NamespaceNext ==
    \/ DeriveNamespace
    \/ NewModInfo

\* C29: for every mod name the derived namespace contains only lowercase
\* alphanumerics and underscore, has length at most MAX_LENGTH and is not a
\* reserved word; a name that normalizes to a reserved word gets the prefix
\* mod_.
C29_NamespaceIsValidIdentifier ==
    mod_info.derived =>
       /\ \A i \in 1..Len(mod_info.namespace) : mod_info.namespace[i] \in VALID_CHARS
       /\ Len(mod_info.namespace) <= MAX_LENGTH
       /\ mod_info.namespace \notin RESERVED_NAMES
       /\ str_lower(mod_info.name) \in RESERVED_NAMES =>
             mod_info.namespace = <<"m", "o", "d", "_">> \o str_lower(mod_info.name)

\* C29 witness: the namespace of the name "SYSTEM" has been derived
C29_Witness ==
    /\ mod_info.derived
    /\ mod_info.name = <<"S", "Y", "S", "T", "E", "M">>
    /\ mod_info.namespace = <<"m", "o", "d", "_", "s", "y", "s", "t", "e", "m">>

\* A name longer than MAX_LENGTH with characters outside VALID_CHARS has been
\* truncated to MAX_LENGTH valid characters
C29_TruncationReached ==
    /\ mod_info.derived
    /\ Len(mod_info.name) > MAX_LENGTH
    /\ Len(mod_info.namespace) = MAX_LENGTH
    /\ \E i \in 1..MAX_LENGTH : mod_info.name[i] \notin VALID_CHARS

\* MOD_DISCOVERY and MOD_FRAMEWORK
SEARCH_PATHS == <<"mods/", "workshop/">>
REQUIRED_FIELDS == <<"name", "version", "api_version">>
API_VERSION == "1.0.0"

\* ModInfo(data, mod_dir) for a manifest that declares no optional field
ModInfoOf(data, mod_dir) ==
    [name |-> data["name"], mod_path |-> mod_dir,
     namespace |-> validate_namespace(data["name"]),
     dependencies |-> <<>>, load_priority |-> 500,
     loaded |-> FALSE, mod_instance |-> None]

\* The most discovery errors that _add_discovery_error keeps (10 in the
\* source, scaled down with the number of mod directories)
MAX_DISCOVERY_ERRORS == 2

\* _add_discovery_error(error): keeps the last MAX_DISCOVERY_ERRORS errors
add_discovery_error(errors, error) ==
    LET l == Append(errors, error)
    IN IF Len(l) > MAX_DISCOVERY_ERRORS
       THEN SubSeq(l, Len(l) - MAX_DISCOVERY_ERRORS + 1, Len(l))
       ELSE l

\* The required fields that the manifest data lacks, in the order of the loop
MissingFields(data) == SelectSeq(REQUIRED_FIELDS, LAMBDA f : f \notin DOMAIN data)

\* A _load_mod_info that records an error for every field that is missing
RECURSIVE add_errors(_, _, _)
add_errors(errors, mod_dir, fields) ==
    IF fields = <<>> THEN errors
    ELSE add_errors(add_discovery_error(errors,
                        [kind |-> "missing_field", mod_dir |-> mod_dir, field |-> fields[1]]),
                    mod_dir, Tail(fields))
load_mod_info_every_field(errors, mod_dir, file) ==
    IF file.kind = "unparsable"
    THEN [info |-> NoneRec,
          errors |-> add_discovery_error(errors,
                        [kind |-> "parse", mod_dir |-> mod_dir, field |-> None])]
    ELSE IF MissingFields(file.data) # <<>>
    THEN [info |-> NoneRec,
          errors |-> add_errors(errors, mod_dir, MissingFields(file.data))]
    ELSE IF file.data["api_version"] # API_VERSION
    THEN [info |-> NoneRec,
          errors |-> add_discovery_error(errors,
                        [kind |-> "api_version", mod_dir |-> mod_dir, field |-> None])]
    ELSE [info |-> ModInfoOf(file.data, mod_dir), errors |-> errors]

\* _load_mod_info(manifest_path, mod_dir): file is what the manifest holds;
\* the result is the descriptor (or None) and the error log
load_mod_info(errors, mod_dir, file) ==
    IF file.kind = "unparsable"
    THEN [info |-> NoneRec,
          errors |-> add_discovery_error(errors,
                        [kind |-> "parse", mod_dir |-> mod_dir, field |-> None])]
    ELSE IF MissingFields(file.data) # <<>>
    THEN [info |-> NoneRec,
          errors |-> add_discovery_error(errors,
                        [kind |-> "missing_field", mod_dir |-> mod_dir,
                         field |-> MissingFields(file.data)[1]])]
    ELSE IF file.data["api_version"] # API_VERSION
    THEN [info |-> NoneRec,
          errors |-> add_discovery_error(errors,
                        [kind |-> "api_version", mod_dir |-> mod_dir, field |-> None])]
    ELSE [info |-> ModInfoOf(file.data, mod_dir), errors |-> errors]

\* A scan that gives up the search directory at the first rejected manifest
RECURSIVE scan_mod_dirs_until_rejected(_, _, _, _)
scan_mod_dirs_until_rejected(st, search_dir, entries, i) ==
    IF i > Len(entries) THEN st
    ELSE IF entries[i].kind = "no_manifest"
    THEN scan_mod_dirs_until_rejected(st, search_dir, entries, i + 1)
    ELSE LET r == load_mod_info(st.errors, <<search_dir, i>>, entries[i])
         IN IF IsNone(r.info) THEN [discovered |-> st.discovered, errors |-> r.errors]
            ELSE scan_mod_dirs_until_rejected(
                    [discovered |-> Store(st.discovered, r.info), errors |-> r.errors],
                    search_dir, entries, i + 1)

\* discover_mods, lines 110-128: the mod directories of one search directory
RECURSIVE scan_mod_dirs(_, _, _, _)
scan_mod_dirs(st, search_dir, entries, i) ==
    IF i > Len(entries) THEN st
    ELSE IF entries[i].kind = "no_manifest"
    THEN scan_mod_dirs(st, search_dir, entries, i + 1)
    ELSE LET r == load_mod_info(st.errors, <<search_dir, i>>, entries[i])
         IN scan_mod_dirs(
                [discovered |-> IF IsNone(r.info) THEN st.discovered
                                ELSE Store(st.discovered, r.info),
                 errors |-> r.errors],
                search_dir, entries, i + 1)

\* discover_mods, lines 104-132: the existing search directories in turn; one
\* that cannot be read is skipped
RECURSIVE scan_search_dirs(_, _, _)
scan_search_dirs(st, dirs, i) ==
    IF i > Len(SEARCH_PATHS) THEN st
    ELSE LET d == dirs[SEARCH_PATHS[i]]
         IN IF ~d.exists \/ ~d.readable
            THEN scan_search_dirs(st, dirs, i + 1)
            ELSE scan_search_dirs(scan_mod_dirs(st, SEARCH_PATHS[i], d.entries, 1),
                                  dirs, i + 1)

\* The cache of discover_mods is valid for this many seconds
CACHE_SECONDS == 600

\* ModManager.__init__, lines 59-63
ScannerStart ==
    [discovery_errors |-> <<>>, discovery_cache |-> NoneRec, cache_valid |-> FALSE,
     cache_timestamp |-> 0, dir_snapshot |-> <<>>]

\* discover_mods, line 77: the modification times of the existing directories
dirs_snapshot(dirs) ==
    LET existing == SelectSeq(SEARCH_PATHS, LAMBDA p : dirs[p].exists)
    IN [i \in 1..Len(existing) |-> <<existing[i], dirs[existing[i]].mtime>>]

\* discover_mods(force_refresh) on the state D = [discovered_mods, scanner]
\* with the disk and the clock of disk; scanned tells whether it read the disk
discover_mods_on(D, disk, force_refresh) ==
    LET snapshot == dirs_snapshot(disk.dirs)
        sc == D.scanner
    IN IF /\ ~force_refresh
          /\ sc.cache_valid
          /\ ~IsNone(sc.discovery_cache)
          /\ disk.clock - sc.cache_timestamp < CACHE_SECONDS
          /\ snapshot = sc.dir_snapshot
       THEN [D EXCEPT !.ret = sc.discovery_cache.mods, !.scanned = FALSE]
       ELSE IF snapshot = <<>>
       THEN [D EXCEPT !.discovered_mods = <<>>,
                      !.scanner = [sc EXCEPT !.discovery_errors = <<>>,
                                             !.discovery_cache = [mods |-> <<>>],
                                             !.cache_valid = TRUE,
                                             !.cache_timestamp = disk.clock],
                      !.ret = <<>>, !.scanned = TRUE]
       ELSE LET st == scan_search_dirs([discovered |-> <<>>, errors |-> <<>>],
                                       disk.dirs, 1)
            IN [D EXCEPT !.discovered_mods = st.discovered,
                         !.scanner = [discovery_errors |-> st.errors,
                                      discovery_cache |-> [mods |-> st.discovered],
                                      cache_valid |-> TRUE,
                                      cache_timestamp |-> disk.clock,
                                      dir_snapshot |-> snapshot],
                         !.ret = st.discovered, !.scanned = TRUE]

(***************************************************************************)
(* ModManager: the calls the host makes                                    *)
(***************************************************************************)
Dep(name, type) == <<name, type>>
\* One value per mod
PerMod(a, b, c) == [moda |-> a, modb |-> b, modc |-> c]
NoDependencies == [m \in Mods |-> <<>>]

\* The manifests of the lifecycle specification: a chain of REQUIRED
\* dependencies, and ordering hints around a mod without dependencies, with
\* one mod that declares another INCOMPATIBLE
LifeManifests ==
    {[NoDependencies EXCEPT !["modb"] = <<Dep("moda", REQUIRED)>>,
                            !["modc"] = <<Dep("modb", REQUIRED)>>],
     [NoDependencies EXCEPT !["moda"] = <<Dep("modb", BEFORE), Dep("modc", INCOMPATIBLE)>>,
                            !["modc"] = <<Dep("moda", AFTER), Dep("modb", OPTIONAL)>>]}

\* Every manifest that declares, for each other mod, nothing or one relation
DepTypes == {REQUIRED, BEFORE, AFTER}
ModIndex == [moda |-> 1, modb |-> 2, modc |-> 3]
DepsOn(S) ==
    UNION {{[i \in 1..Len(p) |-> Dep(p[i], t[i])] : t \in [1..Len(p) -> DepTypes]} :
            p \in {q \in Orders : Range(q) \subseteq S /\
                      \A i, j \in 1..Len(q) : i < j => ModIndex[q[i]] < ModIndex[q[j]]}}
\* A namespace that no mod on disk has: the manifest of modc may name it as REQUIRED
AbsentMod == "modx"
DepsOf(S) == DepsOn(S) \cup {Append(d, Dep(AbsentMod, REQUIRED)) : d \in DepsOn(S)}
\* The most relations that the manifests of one disk declare together
MaxRelations == 3
AllManifests ==
    {f \in {PerMod(a, b, c) : a \in DepsOn({"modb", "modc"}), b \in DepsOn({"moda", "modc"}),
                              c \in DepsOf({"moda", "modb"})} :
        Len(f["moda"]) + Len(f["modb"]) + Len(f["modc"]) <= MaxRelations}

\* The scans and the preferred orders of the resolution specification
ResolveScans ==
    {<<"moda", "modb", "modc">>, <<"modc", "modb", "moda">>,
     <<"moda", "modb">>, <<"modb", "modc">>, <<"modc", "moda">>}
PreferredOrders == {<<>>} \cup Perms(Mods)

\* What a scan of the search directories may find
LifeScans == {<<"moda", "modb", "modc">>, <<"modb", "modc">>}
\* The enabled lists the user may save
EnabledLists == {<<>>, <<"moda", "modb", "modc">>, <<"modc">>, <<"modb">>}

NoCall ==
    [op |-> "init", name |-> None, arg |-> None, ret |-> None, calls |-> <<>>,
     emitted |-> <<>>, was_loaded |-> FALSE]

ManagerStart ==
    /\ discovered_mods = <<>>
    /\ loaded_mods = <<>>
    /\ mod_load_order = <<>>
    /\ sys_modules = {}
    /\ settings = [enabled_mods |-> <<>>, _mods_initialized |-> FALSE]
    /\ mm_last = NoCall
    /\ scanner = ScannerStart

\* The state the call leaves, and its record in the history
Commit(after, op, name, arg) ==
    \E M \in {after} :
        /\ discovered_mods' = M.discovered_mods
        /\ loaded_mods' = M.loaded_mods
        /\ mod_load_order' = M.mod_load_order
        /\ sys_modules' = M.sys_modules
        /\ settings' = M.settings
        /\ assets' = M.assets
        /\ conflicts' = M.conflicts
        /\ registered' = M.registered
        /\ event_stats' = M.event_stats
        /\ mm_last' = [op |-> op, name |-> name, arg |-> arg, ret |-> M.ret,
                       calls |-> M.calls, emitted |-> M.emitted,
                       was_loaded |-> name \in KeySet(loaded_mods),
                       dispatched |-> M.dispatched]
        /\ UNCHANGED <<manifest, handlers, emit, asset_cache, am_calls, am_pure, am_last,
                       dvars, rvars, svars, ivars, nvars>>

\* The calls that may load a mod are cut off after MaxModLoads mod.load events
MayLoad == event_stats[MOD_LOAD] < MaxModLoads

\* discover_mods(force_refresh) when it scans the directories
DiscoverMods ==
    /\ \E scan \in LifeScans :
        Commit(discover_mods(Manager, scan, manifest), "discover_mods", None, None)

\* set_enabled_mods(enabled_mods)
SetEnabledMods ==
    /\ \E l \in EnabledLists :
        /\ l # settings.enabled_mods
        /\ Commit([Manager EXCEPT !.settings.enabled_mods = l], "set_enabled_mods", None, None)

\* discover_mods(force_refresh) when it scans, for any order of the directories
DiscoverAnyOrder ==
    /\ \E scan \in ResolveScans :
        Commit(discover_mods(Manager, scan, manifest), "discover_mods", None, None)

\* resolve_dependencies(preferred_order), as a call of its own
\* A resolution that forgets the stored order when it raises
resolve_call_clears_order(M, preferred) ==
    LET r == resolve_dependencies(M.discovered_mods, preferred)
    IN IF r.raised
       THEN [M EXCEPT !.mod_load_order = <<>>,
                      !.ret = [raised |-> TRUE, error |-> r.error, mod |-> r.mod,
                               dep |-> r.dep, load_order |-> <<>>]]
       ELSE [M EXCEPT !.mod_load_order = r.load_order,
                      !.ret = [raised |-> FALSE, error |-> None, mod |-> None,
                               dep |-> None, load_order |-> r.load_order]]

resolve_call(M, preferred) ==
    LET r == resolve_dependencies(M.discovered_mods, preferred)
    IN IF r.raised
       THEN [M EXCEPT !.ret = [raised |-> TRUE, error |-> r.error, mod |-> r.mod,
                               dep |-> r.dep, load_order |-> <<>>]]
       ELSE [M EXCEPT !.mod_load_order = r.load_order,
                      !.ret = [raised |-> FALSE, error |-> None, mod |-> None,
                               dep |-> None, load_order |-> r.load_order]]

ResolveDependencies ==
    /\ \E preferred \in PreferredOrders :
        Commit(resolve_call(Manager, preferred), "resolve_dependencies", None, preferred)

\* The inputs that cannot matter to a call are fixed, so that one call is
\* one transition: a mod that load_mod would not execute behaves "ok", and
\* so does the cleanup hook of a mod that has no instance
Loadable(name) ==
    /\ name \in KeySet(discovered_mods)
    /\ name \notin KeySet(loaded_mods)
HasCleanup(name) ==
    /\ name \in KeySet(loaded_mods)
    /\ Lookup(loaded_mods, name).mod_instance # None
LoadInputs(name) == IF Loadable(name) THEN LoadBehaviours ELSE {"ok"}
BatchInputs(name) == IF Loadable(name) THEN BatchBehaviours ELSE {"ok"}
CleanupInputs(name) == IF HasCleanup(name) THEN CleanupBehaviours ELSE {"ok"}
ReloadInputs(name, cleanup) ==
    IF name \in KeySet(loaded_mods) /\ name \in KeySet(discovered_mods) /\ cleanup = "ok"
    THEN BatchBehaviours ELSE {"ok"}
\* load_mod(mod_name)
LoadMod ==
    /\ MayLoad
    /\ \E name \in Mods :
          \E beh \in LoadInputs(name) :
             Commit(load_mod(Manager, name, beh), "load_mod", name, beh)

\* unload_mod(mod_name)
UnloadMod ==
    /\ \E name \in Mods :
          \E cleanup \in CleanupInputs(name) :
             Commit(unload_mod(Manager, name, cleanup), "unload_mod", name, cleanup)

\* reload_mod(mod_name)
ReloadMod ==
    /\ MayLoad
    /\ \E name \in Mods :
          \E cleanup \in CleanupInputs(name) :
             \E beh \in ReloadInputs(name, cleanup) :
                Commit(reload_mod(Manager, name, cleanup, beh), "reload_mod", name, cleanup)

\* load_all_mods()
LoadAllMods ==
    /\ MayLoad
    /\ \E a \in BatchInputs("moda"), b \in BatchInputs("modb"), c \in BatchInputs("modc") :
          Commit(load_all_mods(Manager, PerMod(a, b, c)), "load_all_mods", None, None)

\* unload_all_mods()
UnloadAllMods ==
    /\ \E a \in CleanupInputs("moda"), b \in CleanupInputs("modb"),
          c \in CleanupInputs("modc") :
          Commit(unload_all_mods(Manager, PerMod(a, b, c)), "unload_all_mods", None, None)

\* reload_all_mods()
ReloadAllMods ==
    /\ MayLoad
    /\ \E ca \in CleanupInputs("moda"), cb \in CleanupInputs("modb"),
          cc \in CleanupInputs("modc") :
          \E a \in ReloadInputs("moda", ca), b \in ReloadInputs("modb", cb),
             c \in ReloadInputs("modc", cc) :
             Commit(reload_all_mods(Manager, PerMod(ca, cb, cc), PerMod(a, b, c)),
                    "reload_all_mods", None, None)

\* load_mod(mod_name) while handlers are registered for mod.load
LoadModObserved ==
    /\ MayLoad
    /\ \E name \in Mods, h \in ModEventHandlers \ {"none"} :
          \E beh \in LoadInputs(name) :
             Commit(load_mod([Manager EXCEPT !.handler = h], name, beh),
                    "load_mod", name, beh)

\* unload_mod(mod_name) while handlers are registered for mod.unload
UnloadModObserved ==
    /\ \E name \in Mods, h \in ModEventHandlers \ {"none"} :
          \E cleanup \in CleanupInputs(name) :
             Commit(unload_mod([Manager EXCEPT !.handler = h], name, cleanup),
                    "unload_mod", name, cleanup)

\* The calls on single mods, with and without handlers of the mod events
ModEventsNext ==
    \/ DiscoverMods
    \/ LoadMod
    \/ UnloadMod
    \/ LoadModObserved
    \/ UnloadModObserved

\* The calls on single mods and the calls that replay the loaded set
LifecycleNext ==
    \/ DiscoverMods
    \/ LoadMod
    \/ UnloadMod
    \/ ReloadMod
    \/ UnloadAllMods
    \/ ReloadAllMods

\* Discovery and resolution, for the wide family of manifests
ResolveNext ==
    \/ DiscoverAnyOrder
    \/ ResolveDependencies

\* The calls of a start-up or hot reload: the enabled list and the batch load
LoadAllNext ==
    \/ DiscoverMods
    \/ SetEnabledMods
    \/ LoadAllMods
    \/ UnloadAllMods

\* What the search directories may hold.  The manifests of mods/: two that
\* are valid, with names of the same namespace, and five that are not
ManifestNames == {<<"M", "o", "d", " ", "A">>, <<"m", "o", "d", "_", "a">>}
Json(data) == [kind |-> "json", data |-> data]
ValidManifests ==
    {Json([name |-> n, version |-> "1.2", api_version |-> API_VERSION]) : n \in ManifestNames}
InvalidManifests ==
    {[kind |-> "unparsable", data |-> <<>>],
     Json(<<>>),
     Json([name |-> <<"m", "o", "d", "_", "a">>, api_version |-> API_VERSION]),
     Json([name |-> <<"m", "o", "d", "_", "a">>, version |-> "1.2"]),
     Json([name |-> <<"m", "o", "d", "_", "a">>, version |-> "1.2", api_version |-> "0.9.0"])}
ManifestFiles == ValidManifests \cup InvalidManifests

\* One mod directory more than the error log keeps errors
MaxModDirs == MAX_DISCOVERY_ERRORS + 1
SearchDir(entries) == [exists |-> TRUE, readable |-> TRUE, mtime |-> 0, entries |-> entries]
ModsDirs == {SearchDir(e) : e \in UNION {[1..n -> ManifestFiles] : n \in 0..MaxModDirs}}
WorkshopDirs ==
    {[exists |-> FALSE, readable |-> FALSE, mtime |-> 0, entries |-> <<>>],
     [exists |-> TRUE, readable |-> FALSE, mtime |-> 0, entries |-> <<>>],
     SearchDir(<<[kind |-> "no_manifest", data |-> <<>>],
                 Json([name |-> <<"c", "o", "r", "e">>, version |-> "1.2",
                       api_version |-> API_VERSION])>>)}

\* The clock: time.time() when the manager is constructed, and its steps
StartTime == 2 * CACHE_SECONDS
TickSeconds == CACHE_SECONDS
MaxTicks == 1
\* No search directory exists
NoDisk ==
    [clock |-> StartTime,
     dirs |-> [p \in Range(SEARCH_PATHS) |->
                 [exists |-> FALSE, readable |-> FALSE, mtime |-> 0, entries |-> <<>>]]]
Disks ==
    {NoDisk} \cup
    {[clock |-> StartTime,
      dirs |-> [p \in Range(SEARCH_PATHS) |-> IF p = SEARCH_PATHS[1] THEN m ELSE w]] :
        m \in ModsDirs, w \in WorkshopDirs}

\* discover_mods(force_refresh) on the search directories
DiscoverModsOnDisk ==
    /\ \E force_refresh \in BOOLEAN :
         \E D \in {discover_mods_on([discovered_mods |-> discovered_mods,
                                     scanner |-> scanner, ret |-> None,
                                     scanned |-> FALSE], fs, force_refresh)} :
            /\ discovered_mods' = D.discovered_mods
            /\ scanner' = D.scanner
            /\ mm_last' = [op |-> "discover_mods", name |-> None, arg |-> force_refresh,
                           ret |-> D.ret, calls |-> <<>>, emitted |-> <<>>,
                           was_loaded |-> FALSE, scanned |-> D.scanned,
                           last_snapshot |->
                               IF D.scanned \/ "last_snapshot" \notin DOMAIN mm_last
                               THEN dirs_snapshot(fs.dirs)
                               ELSE mm_last.last_snapshot]
    /\ UNCHANGED <<evars, avars, manifest, loaded_mods, mod_load_order, sys_modules,
                   settings, fs, rvars, svars, ivars, nvars>>

\* Time passes
Tick ==
    /\ fs.clock < StartTime + MaxTicks * TickSeconds
    /\ fs' = [fs EXCEPT !.clock = @ + TickSeconds]
    /\ UNCHANGED <<evars, avars, mvars, scanner, rvars, svars, ivars, nvars>>

DiscoverNext ==
    \/ DiscoverModsOnDisk
    \/ Tick

\* The disks of the cache specification: mods/ holds one mod, workshop/ does
\* not exist or holds one mod; a mod directory that may be added later
NewModDir == Json([name |-> <<"n", "e", "w">>, version |-> "1.2", api_version |-> API_VERSION])
CacheDisks ==
    {[clock |-> StartTime,
      dirs |-> [p \in Range(SEARCH_PATHS) |->
                  IF p = SEARCH_PATHS[1]
                  THEN SearchDir(<<Json([name |-> <<"m", "o", "d", "_", "a">>,
                                         version |-> "1.2", api_version |-> API_VERSION])>>)
                  ELSE w]] :
        w \in {[exists |-> FALSE, readable |-> FALSE, mtime |-> 0, entries |-> <<>>],
               SearchDir(<<Json([name |-> <<"c", "o", "r", "e">>, version |-> "1.2",
                                 api_version |-> API_VERSION])>>)}}

\* invalidate_discovery_cache()
InvalidateDiscoveryCache ==
    /\ scanner.cache_valid
    /\ scanner' = [scanner EXCEPT !.cache_valid = FALSE, !.discovery_cache = NoneRec,
                                  !.cache_timestamp = 0]
    /\ UNCHANGED <<evars, avars, mvars, fs, rvars, svars, ivars, nvars>>

\* The disk: a mod directory is added to a search directory, which changes
\* the modification time of the search directory
AddModDir ==
    /\ \E p \in Range(SEARCH_PATHS) :
          /\ fs.dirs[p].exists
          /\ Len(fs.dirs[p].entries) < MaxModDirs
          /\ fs' = [fs EXCEPT !.dirs[p].entries = Append(@, NewModDir),
                              !.dirs[p].mtime = @ + 1]
    /\ UNCHANGED <<evars, avars, mvars, scanner, rvars, svars, ivars, nvars>>

\* The disk: a search directory is renamed away, or renamed back: it keeps
\* its content and its modification time
MoveSearchDir ==
    /\ \E p \in Range(SEARCH_PATHS) :
          /\ fs.dirs[p].entries # <<>>
          /\ fs' = [fs EXCEPT !.dirs[p].exists = ~@, !.dirs[p].readable = ~@]
    /\ UNCHANGED <<evars, avars, mvars, scanner, rvars, svars, ivars, nvars>>

CacheNext ==
    \/ DiscoverModsOnDisk
    \/ Tick
    \/ InvalidateDiscoveryCache
    \/ AddModDir
    \/ MoveSearchDir

(***************************************************************************)
(* ModSystemIntegration (mod_integration.py): the facade the game calls.   *)
(* The module-level event_system and asset_manager exist before the facade *)
(* is initialized, and the host may register handlers and assets on them.  *)
(***************************************************************************)
\* What the host registers directly, and what the disk and the mods' code do
\* during the calls of this specification
ObserverCallbacks == {"h1"}
FacadeBehaviours == {"ok", "no_script"}
FacadeEnabled == <<"moda", "modb">>
\* The files under the game's own assets directory
BaseAssetFiles == AssetFiles \cup MediaFiles

\* EventSystem.emit_event(event_name) with handlers that neither cancel,
\* raise nor change the registrations: every handler is invoked in list order
emit_event_quiet(ev, e) ==
    [ev EXCEPT !.event_stats = [@ EXCEPT ![e] = @ + 1],
               !.emit = [IdleFrame EXCEPT !.event_name = e, !.iter = ev.handlers[e],
                            !.aliased = TRUE, !.idx = Len(ev.handlers[e]),
                            !.start = ev.handlers[e], !.invoked = ev.handlers[e],
                            !.returned = TRUE]]

\* emit_game_event that publishes without looking at self.initialized
emit_game_event_unguarded(init, ev, e) == emit_event_quiet(ev, e)

\* ModSystemIntegration.emit_game_event(event_name)
emit_game_event(init, ev, e) == IF init THEN emit_event_quiet(ev, e) ELSE ev

\* ModSystemIntegration.get_asset_path / get_tileset_path / get_font_path
integration_get_asset_path(init, a, asset_name) ==
    IF init THEN get_asset_path(a, asset_name) ELSE None
integration_get_tileset_path(init, a, tileset_name) ==
    IF init THEN get_tileset_path(a, tileset_name) ELSE None
integration_get_font_path(init, a, font_name) ==
    IF init THEN get_font_path(a, font_name) ELSE None

\* ModSystemIntegration.discover_and_load_mods()
discover_and_load_mods(init, M, scan, disk, behs) ==
    IF ~init THEN [M EXCEPT !.ret = <<>>]
    ELSE load_all_mods(discover_mods(M, scan, disk), behs)

\* ModSystemIntegration.reload_mods_with_new_config()
reload_mods_with_new_config(init, M, cleanups, scan, disk, behs) ==
    IF ~init THEN [M EXCEPT !.ret = <<>>]
    ELSE load_all_mods(discover_mods(unload_all_mods(M, cleanups), scan, disk), behs)

\* ModSystemIntegration.cleanup(): the settings file and the manager after it
cleanup(init, M, st, file, cleanups) ==
    IF init THEN [file |-> save_settings(st), manager |-> unload_all_mods(M, cleanups)]
    ELSE [file |-> file, manager |-> M]

\* The record of a facade call: parity tells one call from the next
FacadeCall(op, result) ==
    [op |-> op, result |-> result, parity |-> 1 - facade_last.parity]

\* The manager and the objects it is wired to become M; mm_last keeps the
\* last call the host made on the manager itself
ManagerBecomes(M) ==
    /\ discovered_mods' = M.discovered_mods
    /\ loaded_mods' = M.loaded_mods
    /\ mod_load_order' = M.mod_load_order
    /\ sys_modules' = M.sys_modules
    /\ settings' = M.settings
    /\ assets' = M.assets
    /\ conflicts' = M.conflicts
    /\ registered' = M.registered
    /\ event_stats' = M.event_stats
    /\ UNCHANGED <<mm_last, manifest, handlers, emit, asset_cache, am_calls, am_pure, am_last,
                   dvars, rvars, nvars, initialized>>

\* event_system.register_handler("game.start", cb, NORMAL, mod) by the host
RegisterObserver ==
    /\ UNCHANGED <<avars, mvars, dvars, rvars, svars, ivars, nvars>>
    /\ \E e \in EventNames, cb \in ObserverCallbacks :
          /\ ~Registered(handlers[e], cb)
          /\ handlers' = [handlers EXCEPT
                 ![e] = register_handler(@, cb, PRIORITY_NORMAL, CallbackOwner[cb], e)]
    /\ UNCHANGED <<event_stats, emit>>

\* register_base_assets(), run once when asset_manager is imported, which is
\* before the facade exists: the game's own assets directory registers as
\* mod "core" with priority 0
register_base_assets ==
    /\ UNCHANGED <<evars, mvars, dvars, rvars, svars, ivars, nvars>>
    /\ am_calls = 0
    /\ facade_last.op = "init"
    /\ LET am == register_mod_assets(AM(assets, conflicts), "core", 0, BaseAssetFiles)
       IN /\ assets' = am.assets
          /\ conflicts' = am.conflicts
          /\ registered' = RegisteredAfter("core", 0, BaseAssetFiles)
    /\ am_last' = [op |-> "register_mod_assets"]
    /\ am_calls' = am_calls + 1
    /\ UNCHANGED <<asset_cache, am_pure>>

\* initialize(): the imports succeed, or one of them raises before anything
\* is assigned; once the modules are imported they stay imported
Initialize ==
    /\ UNCHANGED <<evars, avars, mvars, dvars, rvars, svars, nvars>>
    /\ \E imported \in {TRUE} \cup {initialized} :
          /\ initialized' = imported
          /\ facade_last' = FacadeCall("initialize", imported)

\* emit_game_event(event_name)
EmitGameEvent ==
    /\ UNCHANGED <<avars, mvars, dvars, rvars, svars, nvars, initialized>>
    /\ \E e \in EventNames :
          /\ initialized => event_stats[e] < MaxEmits
          /\ LET ev == emit_game_event(initialized,
                                       [handlers |-> handlers, event_stats |-> event_stats,
                                        emit |-> emit], e)
             IN /\ handlers' = ev.handlers
                /\ event_stats' = ev.event_stats
                /\ emit' = ev.emit
          /\ facade_last' = FacadeCall("emit_game_event", None)

\* get_asset_path(asset_name)
GetAssetPath ==
    /\ UNCHANGED <<evars, avars, mvars, dvars, rvars, svars, nvars, initialized>>
    /\ \E q \in AssetNames :
          facade_last' = FacadeCall("get_asset_path",
                                    integration_get_asset_path(initialized, assets, q))

\* get_tileset_path(tileset_name)
GetTilesetPath ==
    /\ UNCHANGED <<evars, avars, mvars, dvars, rvars, svars, nvars, initialized>>
    /\ \E q \in TilesetQueries :
          facade_last' = FacadeCall("get_tileset_path",
                                    integration_get_tileset_path(initialized, assets, q))

\* get_font_path(font_name)
GetFontPath ==
    /\ UNCHANGED <<evars, avars, mvars, dvars, rvars, svars, nvars, initialized>>
    /\ \E q \in FontQueries :
          facade_last' = FacadeCall("get_font_path",
                                    integration_get_font_path(initialized, assets, q))

\* discover_and_load_mods()
DiscoverAndLoadMods ==
    /\ initialized => MayLoad
    /\ \E scan \in LifeScans, a \in FacadeBehaviours :
          \E M \in {discover_and_load_mods(initialized, Manager, scan, manifest,
                                           PerMod(a, "ok", "ok"))} :
             /\ ManagerBecomes(M)
             /\ facade_last' = FacadeCall("discover_and_load_mods", M.ret)
    /\ UNCHANGED svars

\* reload_mods_with_new_config()
ReloadModsWithNewConfig ==
    /\ initialized => MayLoad
    /\ \E scan \in LifeScans, a \in FacadeBehaviours :
          \E M \in {reload_mods_with_new_config(initialized, Manager,
                                                PerMod("ok", "ok", "ok"), scan, manifest,
                                                PerMod(a, "ok", "ok"))} :
             /\ ManagerBecomes(M)
             /\ facade_last' = FacadeCall("reload_mods_with_new_config", M.ret)
    /\ UNCHANGED svars

\* cleanup()
Cleanup ==
    /\ \E c \in {cleanup(initialized, Manager, ms_settings, settings_file,
                          PerMod("ok", "ok", "ok"))} :
          /\ ManagerBecomes(c.manager)
          /\ settings_file' = c.file
    /\ facade_last' = FacadeCall("cleanup", None)
    /\ UNCHANGED <<ms_settings, namespaces, ms_last>>

FacadeNext ==
    \/ RegisterObserver
    \/ register_base_assets
    \/ Initialize
    \/ EmitGameEvent
    \/ GetAssetPath
    \/ GetTilesetPath
    \/ GetFontPath
    \/ DiscoverAndLoadMods
    \/ ReloadModsWithNewConfig
    \/ Cleanup

\* The calls that return a result map, and those that return a path or nothing
ResultMapCalls == {"discover_and_load_mods", "reload_mods_with_new_config"}
OtherGuardedCalls ==
    {"emit_game_event", "get_asset_path", "get_tileset_path", "get_font_path", "cleanup"}

\* C26: while the facade has not been initialized, emit_game_event,
\* get_asset_path, get_tileset_path, get_font_path, discover_and_load_mods,
\* reload_mods_with_new_config and cleanup return an absent or empty result
\* and change no state of the ModManager, the EventSystem, the AssetManager
\* or the settings file: no handler is invoked, no mod is discovered, loaded
\* or unloaded.
C26_UninitializedFacadeIsInert ==
    [][(/\ ~initialized
        /\ facade_last'.parity # facade_last.parity
        /\ facade_last'.op \in ResultMapCalls \cup OtherGuardedCalls)
       => /\ UNCHANGED <<evars, avars, mvars, dvars, rvars, svars, nvars, initialized>>
          /\ IF facade_last'.op \in ResultMapCalls
             THEN facade_last'.result = <<>>
             ELSE facade_last'.result = None]_vars

\* C26 witness: the facade is not initialized and emit_game_event has just
\* been called while a handler is registered for the event, an asset is
\* registered that the getters would return, and mods are on disk
C26_Witness ==
    /\ ~initialized
    /\ facade_last.op = "emit_game_event"
    /\ \A e \in EventNames : handlers[e] # <<>> /\ event_stats[e] = 0
    /\ emit = IdleFrame
    /\ get_asset_path(assets, "default.ttf") # None
    /\ get_tileset_path(assets, "x") # None
    /\ get_font_path(assets, "default") # None
    /\ discovered_mods = <<>>

(***************************************************************************)
(* ModManager: the claims                                                  *)
(***************************************************************************)
Discovered == KeySet(discovered_mods)

\* The relations the discovered manifests declare, as "source before target"
\* pairs: a REQUIRED or AFTER dependency before the mod that declares it, a
\* mod that declares BEFORE X before X
DeclaredEdges ==
    UNION {{IF d.dependencies[i][2] = BEFORE
            THEN <<d.namespace, d.dependencies[i][1]>>
            ELSE <<d.dependencies[i][1], d.namespace>> :
               i \in {j \in 1..Len(d.dependencies) :
                        d.dependencies[j][2] \in {REQUIRED, AFTER, BEFORE}}} :
           d \in Range(discovered_mods)}
DiscoveredEdges == {e \in DeclaredEdges : e[1] \in Discovered /\ e[2] \in Discovered}

RequiredPresent ==
    \A d \in Range(discovered_mods) : \A i \in 1..Len(d.dependencies) :
        d.dependencies[i][2] = REQUIRED => d.dependencies[i][1] \in Discovered

RECURSIVE Closure(_, _)
Closure(E, n) ==
    IF n = 0 THEN E
    ELSE Closure(E \cup {<<g[1][1], g[2][2]>> : g \in {h \in E \X E : h[1][2] = h[2][1]}},
                 n - 1)
Acyclic(E) == \A e \in Closure(E, Cardinality(Mods)) : e[1] # e[2]

\* x occurs in the sequence, and before any occurrence of y
Precedes(order, x, y) ==
    \E i \in 1..Len(order) :
        /\ order[i] = x
        /\ \A j \in 1..i : order[j] # y

\* C1: for discovered mods whose REQUIRED/BEFORE/AFTER declarations are
\* acyclic and whose REQUIRED targets are all discovered, resolve_dependencies
\* without a preferred order returns an order in which every edge source
\* precedes its target.
C1_ResolveOrderRespectsEdges ==
    (/\ mm_last.op = "resolve_dependencies"
     /\ mm_last.arg = <<>>
     /\ RequiredPresent
     /\ Acyclic(DeclaredEdges))
    => /\ ~mm_last.ret.raised
       /\ \A e \in DiscoveredEdges :
             /\ e[2] \in Range(mm_last.ret.load_order)
             /\ Precedes(mm_last.ret.load_order, e[1], e[2])

\* C2: in every run of load_all_mods, for every dependency edge A -> B between
\* two mods that are both attempted in the run, load_mod(A) is invoked before
\* load_mod(B).
C2_LoadAllCallsDependenciesFirst ==
    mm_last.op = "load_all_mods"
    => \A e \in DiscoveredEdges :
          (e[1] \in Range(mm_last.calls) /\ e[2] \in Range(mm_last.calls))
          => Precedes(mm_last.calls, e[1], e[2])

\* C3: in every reachable state, for every mod the three facts agree: its
\* descriptor's loaded flag is true, its instance handle is non-null, and it
\* is in the manager's loaded set.
C3_LoadedFlagInstanceAndSetAgree ==
    /\ \A d \in Range(discovered_mods) :
          /\ d.loaded <=> d.mod_instance # None
          /\ d.loaded <=> d.namespace \in KeySet(loaded_mods)
    /\ \A e \in Range(loaded_mods) : e.loaded /\ e.mod_instance # None

\* What C4 promises of the mod named in a failed load_mod
NothingLeftOf(name) ==
    /\ name \notin KeySet(loaded_mods)
    /\ name \in Discovered => ~Lookup(discovered_mods, name).loaded
    /\ name \notin sys_modules
    /\ <<MOD_LOAD, name>> \notin Range(mm_last.emitted)

\* C4: whenever load_mod returns failure, the mod is not in the loaded set,
\* its loaded flag is false, its code unit is not in the module cache, and no
\* mod.load event was emitted for it.
C4_FailedLoadLeavesNothingLoaded ==
    (mm_last.op = "load_mod" /\ mm_last.ret = FALSE) => NothingLeftOf(mm_last.name)

\* The same, for the calls made on a mod that was not loaded already
FailedLoadOfUnloadedMod ==
    (mm_last.op = "load_mod" /\ mm_last.ret = FALSE /\ ~mm_last.was_loaded)
    => NothingLeftOf(mm_last.name)

\* C5: after unload_mod has been called on a loaded mod, also when the
\* cleanup hook throws, the mod is not in the loaded set nor in the module
\* cache, its loaded flag is false and its instance is released.
C5_UnloadRemovesDespiteCleanupError ==
    (mm_last.op = "unload_mod" /\ mm_last.was_loaded)
    => /\ mm_last.name \notin KeySet(loaded_mods)
       /\ mm_last.name \notin sys_modules
       /\ mm_last.name \in Discovered =>
             LET d == Lookup(discovered_mods, mm_last.name)
             IN ~d.loaded /\ d.mod_instance = None

\* The same, for the calls in which the cleanup hook does not throw
UnloadRemovesWhenCleanupReturns ==
    (mm_last.op = "unload_mod" /\ mm_last.was_loaded /\ mm_last.arg = "ok")
    => /\ mm_last.name \notin KeySet(loaded_mods)
       /\ mm_last.name \notin sys_modules

\* The sequence without the elements outside S
Restrict(order, S) == SelectSeq(order, LAMBDA n : n \in S)

\* Every declared edge has its source before its target in the order
Compatible(order) == \A e \in DiscoveredEdges : Precedes(order, e[1], e[2])

\* C11: when resolution succeeds on discovered mods whose relations all stay
\* among the discovered mods, a preferred order that lists the discovered
\* mods and has every edge source before its target is returned as it is,
\* restricted to the discovered mods; a preferred order that violates an
\* edge gives the order that resolve_dependencies returns without one.
C11_PreferredOrderHonouredWhenCompatible ==
    (/\ mm_last.op = "resolve_dependencies"
     /\ mm_last.arg # <<>>
     /\ Discovered \subseteq Range(mm_last.arg)
     /\ DeclaredEdges = DiscoveredEdges
     /\ Acyclic(DiscoveredEdges))
    => /\ ~mm_last.ret.raised
       /\ mm_last.ret.load_order =
             IF Compatible(mm_last.arg)
             THEN Restrict(mm_last.arg, Discovered)
             ELSE resolve_dependencies(discovered_mods, <<>>).load_order

\* The mod lies on a cycle of the declared relations
OnCycle(m) == <<m, m>> \in Closure(DeclaredEdges, Cardinality(Mods))

\* The step is a call of resolve_dependencies
ResolveStep == mm_last'.op = "resolve_dependencies" /\ UNCHANGED discovered_mods

\* C12: a call of resolve_dependencies on discovered mods whose
\* REQUIRED/BEFORE/AFTER relations contain a cycle raises, returns no order
\* and leaves mod_load_order as it was; when every REQUIRED dependency is
\* discovered, the error is the circular-dependency error and the mod it
\* names lies on a cycle.
C12_CycleRaisesAndKeepsStoredOrder ==
    [][(ResolveStep /\ ~Acyclic(DeclaredEdges))
       => /\ mm_last'.ret.raised
          /\ mm_last'.ret.load_order = <<>>
          /\ mod_load_order' = mod_load_order
          /\ RequiredPresent => /\ mm_last'.ret.error = "cycle"
                                /\ OnCycle(mm_last'.ret.mod)]_vars

\* C12 as the specification states it: whenever the relations contain a
\* cycle, the error names a mod that lies on a cycle.
C12_CycleErrorAlwaysNamesCycleMod ==
    [][(ResolveStep /\ ~Acyclic(DeclaredEdges))
       => /\ mm_last'.ret.raised
          /\ mm_last'.ret.load_order = <<>>
          /\ mod_load_order' = mod_load_order
          /\ OnCycle(mm_last'.ret.mod)]_vars

\* A cycle was reported while an order of an earlier resolution was stored
C12_Witness ==
    /\ mm_last.op = "resolve_dependencies"
    /\ ~Acyclic(DeclaredEdges)
    /\ RequiredPresent
    /\ mm_last.ret.raised
    /\ mm_last.ret.error = "cycle"
    /\ OnCycle(mm_last.ret.mod)
    /\ mod_load_order # <<>>

\* The REQUIRED declarations of discovered mods whose target is not discovered
MissingRequired ==
    UNION {{<<d.namespace, d.dependencies[i][1]>> :
               i \in {j \in 1..Len(d.dependencies) :
                        /\ d.dependencies[j][2] = REQUIRED
                        /\ d.dependencies[j][1] \notin Discovered}} :
           d \in Range(discovered_mods)}

\* C13: a call of resolve_dependencies while a discovered mod declares a
\* REQUIRED dependency that is not discovered raises the missing-dependency
\* error for such a declaration, returns no order and leaves mod_load_order
\* as it was.
C13_MissingRequiredRaisesBeforeAnyOrder ==
    [][(ResolveStep /\ MissingRequired # {})
       => /\ mm_last'.ret.raised
          /\ mm_last'.ret.error = "missing"
          /\ <<mm_last'.ret.mod, mm_last'.ret.dep>> \in MissingRequired
          /\ mm_last'.ret.load_order = <<>>
          /\ mod_load_order' = mod_load_order]_vars

\* A missing REQUIRED dependency was reported while an order of an earlier
\* resolution was stored
C13_Witness ==
    /\ mm_last.op = "resolve_dependencies"
    /\ MissingRequired # {}
    /\ mm_last.ret.raised
    /\ mm_last.ret.error = "missing"
    /\ mod_load_order # <<>>

\* The REQUIRED declarations among the discovered mods, as <<mod, dependency>>
RequiredEdges ==
    UNION {{<<d.namespace, d.dependencies[i][1]>> :
               i \in {j \in 1..Len(d.dependencies) :
                        /\ d.dependencies[j][2] = REQUIRED
                        /\ d.dependencies[j][1] \in Discovered}} :
           d \in Range(discovered_mods)}

\* The discovered mods that the names reach through REQUIRED declarations
RequiredClosure(names) ==
    LET roots == Range(names) \cap Discovered
    IN roots \cup {e[2] : e \in {f \in Closure(RequiredEdges, Cardinality(Mods)) :
                                   f[1] \in roots}}

\* C14: the mods that a run of load_all_mods passes to load_mod are exactly
\* the discovered mods in the REQUIRED-closure of the enabled list, whether
\* dependency resolution succeeds or raises.
C14_LoadAllAttemptsExactlyTheClosure ==
    mm_last.op = "load_all_mods"
    => Range(mm_last.calls) = RequiredClosure(settings.enabled_mods)

\* When dependency resolution succeeds, load_all_mods passes exactly the
\* REQUIRED-closure of the enabled list to load_mod
LoadAllAttemptsTheClosureWhenResolved ==
    (/\ mm_last.op = "load_all_mods"
     /\ ~resolve_dependencies(discovered_mods, settings.enabled_mods).raised)
    => Range(mm_last.calls) = RequiredClosure(settings.enabled_mods)

\* C15: a call of load_all_mods with an empty enabled list, after a scan
\* that discovered mods, enables every discovered mod, stores them as the enabled list, sets _mods_initialized
\* and passes them to load_mod when the flag was never set; when the flag
\* was set it calls load_mod for no mod and returns an empty result.
C15_FirstRunEnablesAllDiscovered ==
    [][(/\ mm_last'.op = "load_all_mods"
        /\ settings.enabled_mods = <<>>
        /\ discovered_mods # <<>>)
       => IF settings._mods_initialized
          THEN mm_last'.calls = <<>> /\ mm_last'.ret = <<>>
          ELSE /\ settings'.enabled_mods = Keys(discovered_mods)
               /\ settings'._mods_initialized
               /\ Range(mm_last'.calls) = Discovered]_vars

\* unload_mod then load_mod of the same mod, with a cleanup hook that returns
\* and a script that loads
UnloadThenLoad(M, mod_name) == load_mod(unload_mod(M, mod_name, "ok"), mod_name, "ok")

\* What the claim compares: the loaded set, the primary table, the conflicts
LoadedAndAssets(M) == <<KeySet(M.loaded_mods), M.assets, M.conflicts>>

\* C16: for a loaded mod, unload_mod followed by load_mod leaves the mod
\* loaded with its assets registered, and doing the pair a second time gives
\* the same loaded set, primary table and conflict lists as doing it once.
C16_UnloadLoadPairIsIdempotent ==
    \A n \in KeySet(loaded_mods) \cap Discovered :
        LET once == UnloadThenLoad(Manager, n)
            twice == UnloadThenLoad(once, n)
        IN /\ once.ret = TRUE
           /\ n \in KeySet(once.loaded_mods)
           /\ Lookup(once.loaded_mods, n).loaded
           /\ \A f \in ModAssetFiles[n] :
                 determine_asset_type(f) # None
                 => \E a \in Range(once.registered[f.name]) : a.mod_name = n
           /\ LoadedAndAssets(twice) = LoadedAndAssets(once)

\* The pair restores the loaded flag and registers the assets again
UnloadLoadPairRestoresLoaded ==
    \A n \in KeySet(loaded_mods) \cap Discovered :
        LET once == UnloadThenLoad(Manager, n)
        IN /\ once.ret = TRUE
           /\ n \in KeySet(once.loaded_mods)
           /\ Lookup(once.loaded_mods, n).loaded
           /\ \A f \in ModAssetFiles[n] :
                 determine_asset_type(f) # None
                 => \E a \in Range(once.registered[f.name]) : a.mod_name = n
           /\ KeySet(once.loaded_mods) = KeySet(loaded_mods)

\* C17: at most MAX_MODS_LOADED mods are loaded at any time, and load_mod of
\* a discovered mod that is not loaded, called while MAX_MODS_LOADED mods or
\* more are loaded, returns False and changes nothing.
C17_LoadedCountNeverExceedsCap ==
    /\ [](Len(loaded_mods) <= MAX_MODS_LOADED)
    /\ [][(/\ mm_last'.op = "load_mod"
           /\ mm_last'.name \in Discovered
           /\ mm_last'.name \notin KeySet(loaded_mods)
           /\ Len(loaded_mods) >= MAX_MODS_LOADED)
          => /\ mm_last'.ret = FALSE
             /\ UNCHANGED <<discovered_mods, loaded_mods, mod_load_order, sys_modules,
                            settings, assets, conflicts, registered, event_stats,
                            handlers, asset_cache>>]_vars

\* A mod whose script loads was refused because the cap was reached
C17_Witness ==
    /\ mm_last.op = "load_mod"
    /\ mm_last.arg = "ok"
    /\ mm_last.ret = FALSE
    /\ mm_last.name \in Discovered
    /\ mm_last.name \notin KeySet(loaded_mods)
    /\ Len(loaded_mods) = MAX_MODS_LOADED

\* The mod directories with a manifest in the search directories that can be
\* read
ModsOnDisk ==
    UNION {{[mod_dir |-> <<p, i>>, file |-> fs.dirs[p].entries[i]] :
               i \in {j \in 1..Len(fs.dirs[p].entries) :
                        fs.dirs[p].entries[j].kind # "no_manifest"}} :
           p \in {q \in Range(SEARCH_PATHS) : fs.dirs[q].exists /\ fs.dirs[q].readable}}

\* The manifest parses, has every required field and the API version of the host
ValidManifest(file) ==
    /\ file.kind = "json"
    /\ \A f \in Range(REQUIRED_FIELDS) : f \in DOMAIN file.data
    /\ file.data["api_version"] = API_VERSION
ValidOnDisk == {m \in ModsOnDisk : ValidManifest(m.file)}

\* The descriptor of the mod directory is in discovered_mods
IsDiscovered(m) ==
    \E i \in 1..Len(discovered_mods) : discovered_mods[i].mod_path = m.mod_dir

\* The errors that _discovery_errors holds for the mod directory
ErrorsFor(m) ==
    {i \in 1..Len(scanner.discovery_errors) :
        scanner.discovery_errors[i].mod_dir = m.mod_dir}

\* C18: after discover_mods, of two valid manifests whose names differ and
\* have the same namespace, either both descriptors are in discovered_mods, under namespaces
\* that differ, or a discovery error is recorded for one of the two.
C18_NamespaceCollisionIsNotSilent ==
    mm_last.op = "discover_mods"
    => \A a, b \in ValidOnDisk :
          (/\ a.mod_dir # b.mod_dir
           /\ a.file.data["name"] # b.file.data["name"]
           /\ validate_namespace(a.file.data["name"]) = validate_namespace(b.file.data["name"]))
          => \/ /\ IsDiscovered(a)
                /\ IsDiscovered(b)
                /\ Cardinality(KeySet(discovered_mods)) = Len(discovered_mods)
             \/ ErrorsFor(a) \cup ErrorsFor(b) # {}

\* The manifest parses and lacks a required field
LacksField(m) ==
    /\ m.file.kind = "json"
    /\ \E f \in Range(REQUIRED_FIELDS) : f \notin DOMAIN m.file.data
LackingOnDisk == {m \in ModsOnDisk : LacksField(m)}

\* The mod directory b is read after the mod directory a
PathIndex(p) == CHOOSE i \in 1..Len(SEARCH_PATHS) : SEARCH_PATHS[i] = p
ScannedAfter(a, b) ==
    \/ PathIndex(b.mod_dir[1]) > PathIndex(a.mod_dir[1])
    \/ b.mod_dir[1] = a.mod_dir[1] /\ b.mod_dir[2] > a.mod_dir[2]

\* The mod directories read after m whose manifest is rejected
RejectedAfter(m) == {b \in ModsOnDisk : ~ValidManifest(b.file) /\ ScannedAfter(m, b)}

\* Every error that the log holds for m is a missing-field error that names
\* a field that the manifest lacks
ErrorsNameMissingField(m) ==
    \A i \in ErrorsFor(m) :
        /\ scanner.discovery_errors[i].kind = "missing_field"
        /\ scanner.discovery_errors[i].field \in Range(REQUIRED_FIELDS)
        /\ scanner.discovery_errors[i].field \notin DOMAIN m.file.data

NamespaceOf(m) == validate_namespace(m.file.data["name"])

LoadedRelations(type) ==
    UNION {{<<d.namespace, d.dependencies[i][1]>> :
               i \in {j \in 1..Len(d.dependencies) : d.dependencies[j][2] = type}} :
           d \in Range(loaded_mods)}

\* C25: in no reachable state are two mods loaded of which one declares the
\* other INCOMPATIBLE.
C25_IncompatibleModsNeverBothLoaded ==
    \A e \in LoadedRelations(INCOMPATIBLE) : e[2] \notin KeySet(loaded_mods)

\* C30: in every reachable state every REQUIRED dependency of a loaded mod
\* is itself loaded.
C30_RequiredDependenciesOfLoadedAreLoaded ==
    \A e \in LoadedRelations(REQUIRED) : e[2] \in KeySet(loaded_mods)

\* The entry of the mod in a result map, as a set: empty when it has none
ResultOf(results, n) == {results[i][2] : i \in {j \in 1..Len(results) : results[j][1] = n}}

\* C31: load_all_mods returns a result map (it does not raise) in which
\* every discovered mod of the REQUIRED-closure of the enabled list has an
\* entry, also when the load of an earlier mod of the batch failed: load_mod
\* was called for each of them, and every mod whose entry is True is in the
\* loaded set when the call returns.
C31_FailedLoadDoesNotStopTheBatch ==
    mm_last.op = "load_all_mods"
    => /\ \A n \in RequiredClosure(settings.enabled_mods) :
             /\ ResultOf(mm_last.ret, n) # {}
             /\ n \in Range(mm_last.calls)
       /\ \A i \in 1..Len(mm_last.ret) :
             /\ mm_last.ret[i][2] \in BOOLEAN
             /\ mm_last.ret[i][2] => /\ mm_last.ret[i][1] \in KeySet(loaded_mods)
                                     /\ Lookup(loaded_mods, mm_last.ret[i][1]).loaded

\* C31 witness: in one batch the load of a mod failed and a mod attempted
\* after it was loaded by the same call
C31_Witness ==
    /\ mm_last.op = "load_all_mods"
    /\ \E i, j \in 1..Len(mm_last.ret) :
          /\ i < j
          /\ mm_last.ret[i][2] = FALSE
          /\ mm_last.ret[j][2] = TRUE
          /\ mm_last.ret[i][1] \in RequiredClosure(settings.enabled_mods)
          /\ mm_last.ret[j][1] \in RequiredClosure(settings.enabled_mods)
          /\ <<MOD_LOAD, mm_last.ret[j][1]>> \in Range(mm_last.emitted)
          /\ mm_last.ret[j][1] \in KeySet(loaded_mods)

\* What a call leaves, apart from the record of the handlers it dispatched to
Outcome(M) == [M EXCEPT !.dispatched = <<>>, !.handler = "none"]

\* C32: a load_mod of a mod that was not loaded which returns True publishes
\* exactly one event, mod.load for that mod, while the mod is in the loaded
\* set; an unload_mod which returns True publishes exactly one event,
\* mod.unload for that mod, while the mod is no longer in the loaded set; and
\* a handler of these events that raises changes neither the result nor
\* the state the call leaves.
C32_OneEventAfterTheStateChange ==
    /\ (mm_last.op = "load_mod" /\ mm_last.ret = TRUE /\ ~mm_last.was_loaded)
       => /\ Len(mm_last.dispatched) = 1
          /\ mm_last.dispatched[1].event = MOD_LOAD
          /\ mm_last.dispatched[1].mod = mm_last.name
          /\ mm_last.dispatched[1].in_loaded
          /\ mm_last.emitted = <<<<MOD_LOAD, mm_last.name>>>>
    /\ (mm_last.op = "unload_mod" /\ mm_last.ret = TRUE)
       => /\ Len(mm_last.dispatched) = 1
          /\ mm_last.dispatched[1].event = MOD_UNLOAD
          /\ mm_last.dispatched[1].mod = mm_last.name
          /\ ~mm_last.dispatched[1].in_loaded
          /\ mm_last.emitted = <<<<MOD_UNLOAD, mm_last.name>>>>
    /\ \A name \in Mods :
          /\ \A beh \in LoadInputs(name) :
                Outcome(load_mod([Manager EXCEPT !.handler = "raises"], name, beh))
                = Outcome(load_mod([Manager EXCEPT !.handler = "returns"], name, beh))
          /\ \A hook \in CleanupInputs(name) :
                Outcome(unload_mod([Manager EXCEPT !.handler = "raises"], name, hook))
                = Outcome(unload_mod([Manager EXCEPT !.handler = "returns"], name, hook))

\* C32 witness: a mod was loaded while a handler of mod.load raised, and the
\* call returned True with the mod in the loaded set
C32_Witness ==
    /\ mm_last.op = "load_mod"
    /\ mm_last.ret = TRUE
    /\ ~mm_last.was_loaded
    /\ mm_last.dispatched # <<>>
    /\ mm_last.dispatched[1].handler = "caught"
    /\ mm_last.name \in KeySet(loaded_mods)

\* A mod was unloaded while a handler of mod.unload raised
C32_UnloadReached ==
    /\ mm_last.op = "unload_mod"
    /\ mm_last.ret = TRUE
    /\ mm_last.dispatched # <<>>
    /\ mm_last.dispatched[1].handler = "caught"
    /\ mm_last.name \notin KeySet(loaded_mods)

\* The step leaves the manager, the asset tables and the event system alone
NothingChanges ==
    UNCHANGED <<discovered_mods, loaded_mods, mod_load_order, sys_modules, settings,
                assets, conflicts, registered, asset_cache, handlers, event_stats, emit>>

\* C33: load_mod of a mod that is in the loaded set returns True, changes
\* nothing (no hook is run, no asset is registered) and emits no event, also
\* when the loaded set is at the cap; unload_mod of a mod that is not in the
\* loaded set returns False, changes nothing and emits no event.
C33_RepeatedCallsAreNoOps ==
    [][/\ (mm_last'.op = "load_mod" /\ mm_last'.name \in KeySet(loaded_mods))
          => /\ mm_last'.ret = TRUE
             /\ mm_last'.emitted = <<>>
             /\ NothingChanges
       /\ (mm_last'.op = "unload_mod" /\ mm_last'.name \notin KeySet(loaded_mods))
          => /\ mm_last'.ret = FALSE
             /\ mm_last'.emitted = <<>>
             /\ NothingChanges]_vars

\* The same, for a loaded mod that the last scan still found
RepeatedCallsAreNoOpsWhileDiscovered ==
    [][/\ (/\ mm_last'.op = "load_mod"
           /\ mm_last'.name \in KeySet(loaded_mods)
           /\ mm_last'.name \in Discovered)
          => /\ mm_last'.ret = TRUE
             /\ mm_last'.emitted = <<>>
             /\ NothingChanges
       /\ (mm_last'.op = "unload_mod" /\ mm_last'.name \notin KeySet(loaded_mods))
          => /\ mm_last'.ret = FALSE
             /\ mm_last'.emitted = <<>>
             /\ NothingChanges]_vars

\* The mods of the events of one kind that a call published, in order
EventMods_(emitted, kind) ==
    LET sel == SelectSeq(emitted, LAMBDA x : x[1] = kind)
    IN [i \in 1..Len(sel) |-> sel[i][2]]

\* The names of a result map, in the order the entries were made
ResultNames(results) == [i \in 1..Len(results) |-> results[i][1]]

\* Every step keeps the loaded set in the order of loading: the mods it
\* unloaded leave, and the mods it loaded follow the others in the order
\* of their mod.load events
LoadedSetKeepsLoadOrder ==
    Keys(loaded_mods') =
        SelectSeq(Keys(loaded_mods),
                  LAMBDA n : n \notin Range(EventMods_(mm_last'.emitted, MOD_UNLOAD)))
        \o EventMods_(mm_last'.emitted, MOD_LOAD)

\* C34: the loaded set lists the loaded mods in the order in which they were
\* loaded; unload_all_mods calls unload_mod for them in exactly the reverse
\* of that order and leaves the loaded set empty when no cleanup hook fails;
\* reload_all_mods unloads them in the reverse order and then calls load_mod
\* for the same names in their original load order.
C34_UnloadAllReversesLoadOrder ==
    /\ [][mm_last' # mm_last => LoadedSetKeepsLoadOrder]_vars
    /\ [][mm_last'.op = "unload_all_mods"
          => /\ ResultNames(mm_last'.ret) = Reverse(Keys(loaded_mods))
             /\ EventMods_(mm_last'.emitted, MOD_UNLOAD)
                = SelectSeq(Reverse(Keys(loaded_mods)),
                            LAMBDA n : n \notin KeySet(loaded_mods'))
             /\ (\A i \in 1..Len(mm_last'.ret) : mm_last'.ret[i][2]) <=> loaded_mods' = <<>>]_vars
    /\ [][mm_last'.op = "reload_all_mods"
          => /\ mm_last'.calls = Keys(loaded_mods)
             /\ ResultNames(mm_last'.ret) = Keys(loaded_mods)
             /\ EventMods_(mm_last'.emitted, MOD_UNLOAD)
                = SelectSeq(Reverse(Keys(loaded_mods)),
                            LAMBDA n : n \in Range(EventMods_(mm_last'.emitted, MOD_UNLOAD)))
             /\ \A i, j \in 1..Len(mm_last'.emitted) :
                   (mm_last'.emitted[i][1] = MOD_UNLOAD /\ mm_last'.emitted[j][1] = MOD_LOAD)
                   => i < j]_vars
    /\ [](unload_all_mods(Manager, PerMod("ok", "ok", "ok")).loaded_mods = <<>>)
    /\ [](KeySet(loaded_mods) \subseteq Discovered
          => Keys(reload_all_mods(Manager, PerMod("ok", "ok", "ok"),
                                  PerMod("ok", "ok", "ok")).loaded_mods)
             = Keys(loaded_mods))

\* C34 witness: two mods that were loaded in an order other than the order
\* of discovery have been unloaded by unload_all_mods, the later one first
C34_Witness ==
    /\ mm_last.op = "unload_all_mods"
    /\ Len(mm_last.ret) = 2
    /\ mm_last.ret[1][2] /\ mm_last.ret[2][2]
    /\ mm_last.ret[1][1] = "moda"
    /\ mm_last.ret[2][1] = "modc"
    /\ mm_last.emitted = <<<<MOD_UNLOAD, "moda">>, <<MOD_UNLOAD, "modc">>>>
    /\ loaded_mods = <<>>

\* reload_all_mods has reloaded two mods loaded in an order other than the
\* order of discovery
C34_ReloadReached ==
    /\ mm_last.op = "reload_all_mods"
    /\ mm_last.calls = <<"modc", "moda">>
    /\ Keys(loaded_mods) = <<"modc", "moda">>
    /\ Len(mm_last.emitted) = 4

\* What a scan of the disk finds now
FoundOnDisk ==
    IF dirs_snapshot(fs.dirs) = <<>> THEN <<>>
    ELSE scan_search_dirs([discovered |-> <<>>, errors |-> <<>>], fs.dirs, 1).discovered

\* A scan was made and not invalidated, fewer than CACHE_SECONDS ago, and
\* the search directories that exist are those that existed at this scan,
\* each with the modification time it had then
CacheIsFresh ==
    /\ scanner.cache_valid
    /\ "last_snapshot" \in DOMAIN mm_last
    /\ fs.clock - scanner.cache_timestamp < CACHE_SECONDS
    /\ dirs_snapshot(fs.dirs) = mm_last.last_snapshot

\* The step is a call of discover_mods: the disk and the clock stay, and
\* the call leaves a valid cache
DiscoverStep ==
    /\ mm_last'.op = "discover_mods"
    /\ UNCHANGED fs
    /\ scanner'.cache_valid

\* C35: discover_mods(force_refresh=False) returns the cached result without
\* rescanning exactly when a previous scan exists, fewer than 600 seconds
\* have passed since it and every existing search directory has the
\* modification time recorded at that scan; in every other case, with
\* force_refresh=True and after invalidate_discovery_cache it rescans and
\* replaces the discovered set by what is on disk.
C35_CacheUsedExactlyWhenFresh ==
    [][DiscoverStep
       => IF ~mm_last'.arg /\ CacheIsFresh
          THEN /\ ~mm_last'.scanned
               /\ mm_last'.ret = scanner.discovery_cache.mods
               /\ UNCHANGED discovered_mods
          ELSE /\ mm_last'.scanned
               /\ discovered_mods' = FoundOnDisk
               /\ mm_last'.ret = FoundOnDisk]_vars

\* What the code compares: the directories that exist, with their
\* modification times, are those of the snapshot it keeps
SnapshotKept ==
    /\ scanner.cache_valid
    /\ fs.clock - scanner.cache_timestamp < CACHE_SECONDS
    /\ dirs_snapshot(fs.dirs) = scanner.dir_snapshot

\* The cache test as the code makes it
CacheUsedWhenSnapshotKept ==
    [][DiscoverStep
       => IF ~mm_last'.arg /\ SnapshotKept
          THEN /\ ~mm_last'.scanned
               /\ mm_last'.ret = scanner.discovery_cache.mods
               /\ UNCHANGED discovered_mods
          ELSE /\ mm_last'.scanned
               /\ discovered_mods' = FoundOnDisk
               /\ mm_last'.ret = FoundOnDisk]_vars

\* The cached result of a scan that found no directory was returned while
\* a search directory with a mod in it exists
StaleCacheReturned ==
    /\ mm_last.op = "discover_mods"
    /\ ~mm_last.scanned
    /\ mm_last.last_snapshot = <<>>
    /\ mm_last.ret = <<>>
    /\ FoundOnDisk # <<>>

\* The entries registered for asset name n by mods other than ns
RemainingEntries(n, ns) == {e \in Range(registered[n]) : e.mod_name # ns}

\* C36: after unregister_mod_assets(ns), where ns owned the entry of the
\* primary table for a name that other mods registered too,
\* get_asset_path(name) returns the path of an entry of a remaining
\* contributor, one of least priority value among them, and not None.
C36_RemainingContributorWins ==
    \A ns \in AssetMods, n \in AssetNames :
       (/\ n \in DOMAIN assets
        /\ assets[n].mod_name = ns
        /\ RemainingEntries(n, ns) # {}) =>
          LET after == unregister_mod_assets(AM(assets, conflicts), ns)
          IN \E e \in RemainingEntries(n, ns) :
                /\ get_asset_path(after.assets, n) = e.path
                /\ \A x \in RemainingEntries(n, ns) : e.priority <= x.priority

\* The mods that own an entry of the primary table or of a conflict list
AssetOwners(a, c) ==
    {a[n].mod_name : n \in DOMAIN a}
       \cup UNION {{e.mod_name : e \in Range(c[n])} : n \in DOMAIN c}

\* C37: after unload_mod(ns) returns True, get_asset_path returns the path
\* of no entry owned by ns, and the primary table and the conflict lists
\* hold entries of the mods left loaded (and of core) only.
C37_UnloadedModOwnsNoAsset ==
    \A ns \in KeySet(loaded_mods) :
       LET after == unload_mod(Manager, ns, "ok")
       IN after.ret = TRUE =>
             /\ \A q \in AssetNames :
                   get_asset_path(after.assets, q)
                      \notin {AssetPath(ns, n) : n \in AssetNames}
             /\ AssetOwners(after.assets, after.conflicts)
                   \subseteq KeySet(after.loaded_mods) \cup {"core"}

\* C38: a call of resolve_dependencies that returns gives a permutation of
\* the discovered mods: every discovered namespace once and no other name,
\* also when a discovered mod declares BEFORE or AFTER towards a namespace
\* that is not discovered.
C38_OrderIsPermutationOfDiscovered ==
    [][(ResolveStep /\ ~mm_last'.ret.raised)
       => /\ Len(mm_last'.ret.load_order) = Len(discovered_mods)
          /\ Range(mm_last'.ret.load_order) = Discovered]_vars

\* Every component as constructed, for the manifests of the lifecycle
Init ==
    /\ EventsInit
    /\ AssetsInit
    /\ ManagerStart
    /\ RegistryInit
    /\ SettingsInit
    /\ FacadeInit
    /\ NoModInfo
    /\ manifest \in LifeManifests
    /\ fs = NoDisk

\* Every component as constructed, for every small set of manifests
InitResolve ==
    /\ EventsInit
    /\ AssetsInit
    /\ ManagerStart
    /\ RegistryInit
    /\ SettingsInit
    /\ FacadeInit
    /\ NoModInfo
    /\ manifest \in AllManifests
    /\ fs = NoDisk

\* Every component as constructed, with no mod on disk
InitNoMods ==
    /\ EventsInit
    /\ AssetsInit
    /\ ManagerStart
    /\ RegistryInit
    /\ SettingsInit
    /\ FacadeInit
    /\ NoModInfo
    /\ manifest = NoDependencies
    /\ fs = NoDisk

\* Every component as constructed, for every small content of the search
\* directories
InitDiscover ==
    /\ EventsInit
    /\ AssetsInit
    /\ ManagerStart
    /\ RegistryInit
    /\ SettingsInit
    /\ FacadeInit
    /\ NoModInfo
    /\ manifest = NoDependencies
    /\ fs \in Disks

\* Every component as constructed, for the disks of the cache specification
InitCache ==
    /\ EventsInit
    /\ AssetsInit
    /\ ManagerStart
    /\ RegistryInit
    /\ SettingsInit
    /\ FacadeInit
    /\ NoModInfo
    /\ manifest = NoDependencies
    /\ fs \in CacheDisks

\* Every component as constructed, mods on disk, and an enabled list saved
\* by an earlier session
InitFacade ==
    /\ EventsInit
    /\ AssetsInit
    /\ RegistryInit
    /\ SettingsInit
    /\ FacadeInit
    /\ NoModInfo
    /\ discovered_mods = <<>>
    /\ loaded_mods = <<>>
    /\ mod_load_order = <<>>
    /\ sys_modules = {}
    /\ settings = [enabled_mods |-> FacadeEnabled, _mods_initialized |-> TRUE]
    /\ mm_last = NoCall
    /\ scanner = ScannerStart
    /\ manifest \in LifeManifests
    /\ fs = NoDisk

SpecFacade == InitFacade /\ [][FacadeNext]_vars

InitNamespace ==
    /\ EventsInit
    /\ AssetsInit
    /\ ManagerStart
    /\ RegistryInit
    /\ SettingsInit
    /\ FacadeInit
    /\ manifest = NoDependencies
    /\ fs = NoDisk
    /\ NamespaceInit

SpecNamespace == InitNamespace /\ [][NamespaceNext]_vars

InitSettings ==
    /\ NoModInfo
    /\ EventsInit
    /\ AssetsInit
    /\ ManagerStart
    /\ RegistryInit
    /\ FacadeInit
    /\ manifest = NoDependencies
    /\ fs = NoDisk
    /\ settings_file \in SettingsFiles
    /\ ms_settings = load_settings(settings_file)
    /\ namespaces = EmptyDict
    /\ ms_last = [op |-> "init", result |-> TRUE, sets |-> 0]

SpecSettings == InitSettings /\ [][SettingsNext]_vars
SpecRegistry == InitNoMods /\ [][RegistryNext]_vars
SpecEvents == InitNoMods /\ [][EventsNext]_vars

SpecAssetPaths == InitNoMods /\ [][AssetPathsNext]_vars
SpecAssets == InitNoMods /\ [][AssetsNext]_vars

Spec == Init /\ [][LifecycleNext]_vars

SpecModEvents == Init /\ [][ModEventsNext]_vars

SpecLoadAll == Init /\ [][LoadAllNext]_vars

SpecResolve == InitResolve /\ [][ResolveNext]_vars

SpecDiscover == InitDiscover /\ [][DiscoverNext]_vars

SpecCache == InitCache /\ [][CacheNext]_vars

====
